---------------------------- MODULE Spec2Model ----------------------------
(***************************************************************************)
(* A model of the numio expression engine: the rate cache                  *)
(* (internal/cache/cache.go), the session context and evaluator            *)
(* (internal/eval), the lexer and the parser.                              *)
(*                                                                         *)
(* float64 amounts and rates are modelled as exact rationals <<n, d>>      *)
(* (d > 0, lowest terms), so 1/r and products are exact.                   *)
(***************************************************************************)
EXTENDS Integers, Sequences, FiniteSets, TLC

(***************************************************************************)
(* Rational arithmetic standing in for float64.                            *)
(***************************************************************************)
Abs(x) == IF x < 0 THEN 0 - x ELSE x

RECURSIVE GCD(_, _)
GCD(a, b) == IF b = 0 THEN a ELSE GCD(b, a % b)

Rat(n, d) ==
    LET g == GCD(Abs(n), Abs(d))
        s == IF d < 0 THEN 0 - 1 ELSE 1
    IN  IF n = 0 THEN <<0, 1>> ELSE <<(s * n) \div g, (s * d) \div g>>

Zero == <<0, 1>>
One == <<1, 1>>

RMul(x, y) ==
    LET g1 == GCD(Abs(x[1]), y[2])
        g2 == GCD(Abs(y[1]), x[2])
    IN  IF x[1] = 0 \/ y[1] = 0 THEN Zero
        ELSE Rat((x[1] \div g1) * (y[1] \div g2), (x[2] \div g2) * (y[2] \div g1))

RInv(x) == Rat(x[2], x[1])

RAdd(x, y) == Rat(x[1] * y[2] + y[1] * x[2], x[2] * y[2])

RSub(x, y) == Rat(x[1] * y[2] - y[1] * x[2], x[2] * y[2])

RNeg(x) == <<0 - x[1], x[2]>>

RLess(x, y) == x[1] * y[2] < y[1] * x[2]

(***************************************************************************)
(* Bounds of the model.                                                    *)
(***************************************************************************)
MaxOps == 3
MaxTime == 2

(***************************************************************************)
(* Asset codes.  A representative of each class of the registries: the     *)
(* anchor, a fiat currency, a crypto token and a metal.                    *)
(***************************************************************************)
Codes == {"USD", "EUR", "BTC", "XAU"}

\* The ordered pairs SetRate and GetRate are called with: every pair of
\* distinct codes, the identity pair of the anchor, and a lower-case spelling.
CodePairs == {p \in Codes \X Codes : p[1] # p[2]} \cup {<<"USD", "USD">>}

QueryPairs == CodePairs \cup {<<"eur", "USD">>}

ToUpper(s) == IF s = "eur" THEN "EUR" ELSE s

IsCrypto(code) == code = "BTC"

RateInputs == {Zero, <<3, 1>>}

RawRateInputs == {Zero, <<2, 1>>}

VARIABLES
    rates,       \* RateCache.rates: <<from, to>> -> rate
    rawRates,    \* RateCache.rawRates: code -> rate
    lastUpdate,  \* RateCache.lastUpdate
    now,         \* the wall clock, in hours
    fileCache,   \* the contents of the rates file
    answer,      \* what the last GetRate returned
    nops         \* operations performed so far

VARIABLES
    lex,         \* the Lexer: input, pos, readPos, ch, col
    tokens       \* the tokens NextToken has returned so far

cacheVars == <<rates, rawRates, lastUpdate, now, fileCache, answer, nops>>

VARIABLES
    parser,      \* the Parser: input, tokens, pos, errors
    parsed       \* what ParseLine returned, once it has

VARIABLES
    ctx,         \* the engine's Context
    heap,        \* the maps and arrays contexts refer to
    lastCall,    \* the last engine call and what it returned
    steps        \* engine calls made so far

lexVars == <<lex, tokens>>

parseVars == <<parser, parsed>>

VARIABLES
    mu,          \* the RWMutex of the rate cache and of the context
    frame,       \* where each goroutine stands in the operation it runs
    local,       \* each goroutine's local copy of the rates file
    rateCache,   \* Context.rateCache: "nil" or "rc"
    calls        \* operations started so far

VARIABLES
    km,          \* the KeyMap: CurrentMode and the fields of its MotionState
    command,     \* what the last ProcessKey returned
    typed        \* the keys pressed so far

VARIABLES
    client,      \* the Client: maxRetries, backoffBase, backoffMax
    request      \* one call of Client.Do: where it stands and what it has done

evalVars == <<ctx, heap, lastCall, steps>>

concVars == <<mu, frame, local, rateCache, calls>>

keyVars == <<km, command, typed>>

clientVars == <<client, request>>

vars == <<cacheVars, lexVars, parseVars, evalVars, concVars, keyVars, clientVars>>

\* What the operations of one component leave alone.
outsideCache == <<lexVars, parseVars, evalVars, concVars, keyVars, clientVars>>

outsideLex == <<cacheVars, parseVars, evalVars, concVars, keyVars, clientVars>>

outsideParse == <<cacheVars, lexVars, evalVars, concVars, keyVars, clientVars>>

outsideEngine ==
    <<rawRates, lastUpdate, now, fileCache, answer, nops, lexVars, parseVars, concVars,
      keyVars, clientVars>>

outsideConc == <<answer, nops, lexVars, parseVars, evalVars, keyVars, clientVars>>

(***************************************************************************)
(* Helpers over maps (Go map semantics: assignment inserts or overwrites). *)
(***************************************************************************)
\* A value computed once and named, as an assignment to a local does.
With(v, F(_)) == F(v)

EmptyMap == [x \in {} |-> Zero]

Put(m, k, v) == [x \in DOMAIN m \cup {k} |-> IF x = k THEN v ELSE m[x]]

Perms(S) ==
    LET n == Cardinality(S)
    IN  {s \in [1..n -> S] : \A i, j \in 1..n : i # j => s[i] # s[j]}

ZeroTime == 0

ttl == 1

NoFile == [exists |-> FALSE, timestamp |-> ZeroTime, rates |-> EmptyMap]

NoAnswer == [asked |-> FALSE, from |-> "", to |-> "", ok |-> FALSE, rate |-> Zero]

NotFound == [ok |-> FALSE, rate |-> Zero]

Found(r) == [ok |-> TRUE, rate |-> r]

(***************************************************************************)
(* loadDefaults: the hardcoded fallback snapshot (a representative of each *)
(* of the three tables), with both directions and the USD identity entry.  *)
(***************************************************************************)
DefaultEUR == <<23, 25>>
DefaultBTC == <<95000, 1>>
DefaultXAU == <<2650, 1>>

StoreBoth(rt, from, to, rate) ==
    LET r1 == Put(rt, <<from, to>>, rate)
    IN  IF rate # Zero THEN Put(r1, <<to, from>>, RInv(rate)) ELSE r1

loadDefaults ==
    LET r0 == Put(EmptyMap, <<"USD", "USD">>, One)
        r1 == StoreBoth(r0, "USD", "EUR", DefaultEUR)
        r2 == StoreBoth(r1, "BTC", "USD", DefaultBTC)
    IN  StoreBoth(r2, "XAU", "USD", DefaultXAU)

(***************************************************************************)
(* findRateBFS.  The scan `for pair, rate := range c.rates` visits the     *)
(* map in an unspecified order, so the neighbours of a node join the queue *)
(* in any order: the operator returns every result some order produces.    *)
(***************************************************************************)
nextRateKeepsLastEdge(currentRate, rate) == rate

nextRate(currentRate, rate) == RMul(currentRate, rate)

RECURSIVE bfsLoop(_, _, _, _)
bfsLoop(rt, to, queue, visited) ==
    IF queue = <<>> THEN {NotFound}
    ELSE LET current == Head(queue)
             out     == {p \in DOMAIN rt : p[1] = current.currency}
             fresh   == {p[2] : p \in out} \ visited
         IN  IF <<current.currency, to>> \in DOMAIN rt
             THEN {Found(nextRate(current.rate, rt[<<current.currency, to>>]))}
             ELSE UNION {
                    bfsLoop(rt, to,
                            Tail(queue) \o
                              [i \in 1..Len(order) |->
                                 [currency |-> order[i],
                                  rate |-> nextRate(current.rate,
                                                    rt[<<current.currency, order[i]>>])]],
                            visited \cup fresh)
                    : order \in Perms(fresh)}

findRateBFS(rt, from, to) ==
    bfsLoop(rt, to, <<[currency |-> from, rate |-> One]>>, {from})

GetRateOutcomes(rt, from0, to0) ==
    LET from == ToUpper(from0)
        to   == ToUpper(to0)
    IN  IF from = to THEN {Found(One)}
        ELSE IF <<from, to>> \in DOMAIN rt THEN {Found(rt[<<from, to>>])}
        ELSE findRateBFS(rt, from, to)

(***************************************************************************)
(* Rate cache operations.                                                  *)
(***************************************************************************)
SetRateTable(rt, from0, to0, rate) ==
    StoreBoth(rt, ToUpper(from0), ToUpper(to0), rate)

SetRate(from, to, rate) ==
    /\ nops < MaxOps
    /\ rates' = SetRateTable(rates, from, to, rate)
    /\ answer' = NoAnswer
    /\ nops' = nops + 1
    /\ UNCHANGED <<rawRates, lastUpdate, now, fileCache, outsideCache>>

GetRate(from, to) ==
    /\ nops < MaxOps
    /\ \E o \in GetRateOutcomes(rates, from, to) :
         answer' = [asked |-> TRUE, from |-> ToUpper(from), to |-> ToUpper(to),
                    ok |-> o.ok, rate |-> o.rate]
    /\ nops' = nops + 1
    /\ UNCHANGED <<rates, rawRates, lastUpdate, now, fileCache, outsideCache>>

(***************************************************************************)
(* ApplyRawRates: keeps a copy of the raw map, then stores each entry in   *)
(* both directions (crypto: 1 TOKEN = rate USD, anything else: 1 USD =     *)
(* rate CODE) on top of the existing table, and stamps lastUpdate.  The    *)
(* keys of a raw map are distinct upper-case codes, so the entries touch   *)
(* disjoint pairs and the iteration order does not matter.                 *)
(***************************************************************************)
\* ApplyRawRates reading every code as a fiat code.
ApplyOneAsFiat(rt, code0, rate) == StoreBoth(rt, "USD", ToUpper(code0), rate)

ApplyOne(rt, code0, rate) ==
    LET code == ToUpper(code0)
    IN  IF IsCrypto(code) THEN StoreBoth(rt, code, "USD", rate)
        ELSE StoreBoth(rt, "USD", code, rate)

RECURSIVE ApplyAll(_, _, _)
ApplyAll(rt, m, keys) ==
    IF keys = {} THEN rt
    ELSE LET k == CHOOSE x \in keys : TRUE
         IN  ApplyAll(ApplyOne(rt, k, m[k]), m, keys \ {k})

ApplyRawRatesTable(rt, m) == ApplyAll(rt, m, DOMAIN m)

\* The raw maps ingested: every single-entry map, and the two-entry maps that
\* pair a crypto token with a fiat or metal code.
RawInputs ==
    UNION {[S -> RawRateInputs] :
             S \in {{c} : c \in Codes} \cup {{"BTC", "EUR"}, {"BTC", "XAU"}}}

ApplyRawRates(m) ==
    /\ nops < MaxOps
    /\ rawRates' = m
    /\ rates' = ApplyRawRatesTable(rates, m)
    /\ lastUpdate' = now
    /\ answer' = NoAnswer
    /\ nops' = nops + 1
    /\ UNCHANGED <<now, fileCache, outsideCache>>

(***************************************************************************)
(* RateCache.Clear.                                                        *)
(***************************************************************************)
RateCacheClear ==
    /\ nops < MaxOps
    /\ rates' = EmptyMap
    /\ rawRates' = EmptyMap
    /\ lastUpdate' = ZeroTime
    /\ answer' = NoAnswer
    /\ nops' = nops + 1
    /\ UNCHANGED <<now, fileCache, outsideCache>>

(***************************************************************************)
(* File persistence.  time.Since(t) > ttl, with the zero time in the far   *)
(* past.                                                                   *)
(***************************************************************************)
Expired(t) == t = ZeroTime \/ now - t > ttl

SaveToFile ==
    /\ nops < MaxOps
    /\ fileCache' = [exists |-> TRUE, timestamp |-> lastUpdate, rates |-> rawRates]
    /\ nops' = nops + 1
    /\ UNCHANGED <<rates, rawRates, lastUpdate, now, answer, outsideCache>>

LoadFromFile ==
    /\ nops < MaxOps
    /\ nops' = nops + 1
    /\ IF ~fileCache.exists \/ Expired(fileCache.timestamp)
       THEN UNCHANGED <<rates, rawRates, lastUpdate, answer>>
       ELSE /\ rawRates' = fileCache.rates
            /\ rates' = ApplyRawRatesTable(rates, fileCache.rates)
            /\ lastUpdate' = fileCache.timestamp
            /\ answer' = NoAnswer
    /\ UNCHANGED <<now, fileCache, outsideCache>>

Tick ==
    /\ nops < MaxOps
    /\ now < MaxTime
    /\ now' = now + 1
    /\ nops' = nops + 1
    /\ UNCHANGED <<rates, rawRates, lastUpdate, fileCache, answer, outsideCache>>

\* New(): the fallback snapshot, then LoadFromFile with no rates file yet.
\* A session may also start from a cache its owner has emptied with Clear().
CacheStart ==
    /\ rawRates = EmptyMap
    /\ lastUpdate = ZeroTime
    /\ now = 1
    /\ fileCache = NoFile
    /\ answer = NoAnswer
    /\ nops = 0

\* lexer.New("") with nothing read from it.
LexIdle ==
    /\ lex = [input |-> <<>>, pos |-> 0, readPos |-> 1, ch |-> "EOF", col |-> 1]
    /\ tokens = <<>>

\* parser.New("") before ParseLine.
ParseIdle ==
    /\ parser = [input |-> <<>>, tokens |-> <<[type |-> "EOF", literal |-> <<>>, pos |-> 0]>>,
                 pos |-> 0, errors |-> <<>>]
    /\ parsed = [done |-> FALSE]

\* eval.NewContext() with no call made.
EngineIdle ==
    /\ ctx = [variables |-> 1,
              previous |-> [Kind |-> "Empty", Num |-> Zero, Curr |-> "", Unit |-> "",
                            Metal |-> "", Crypto |-> "", Err |-> ""],
              lines |-> [arr |-> 0, len |-> 0], strict |-> FALSE]
    /\ heap = [maps |-> <<EmptyMap>>, arrays |-> <<>>]
    /\ lastCall = [op |-> "", input |-> <<>>, values |-> <<>>]
    /\ steps = 0

Goroutines == {1, 2}

\* No goroutine inside an operation of the cache or of the context.
ConcIdle ==
    /\ mu = [o \in {"cache", "context"} |-> [writer |-> 0, readers |-> {}]]
    /\ frame = [t \in Goroutines |-> [op |-> "", i |-> 0, released |-> {}]]
    /\ local = [t \in Goroutines |-> NoFile]
    /\ rateCache = "rc"
    /\ calls = 0

KeysIdle ==
    /\ km = [CurrentMode |-> "ModeNormal",
             State |-> [Count |-> 0, PendingOperator |-> "", KeyBuffer |-> <<>>]]
    /\ command = [cmd |-> [Action |-> "", Count |-> 0, Motion |-> "", MotionCount |-> 0],
                  ok |-> FALSE]
    /\ typed = <<>>

ClientIdle ==
    /\ client = [maxRetries |-> 0, backoffBase |-> 1, backoffMax |-> 1]
    /\ request = [at |-> "idle", attempt |-> 0, sent |-> 0, waited |-> 0, cancelled |-> FALSE,
                  lastErr |-> "", err |-> "", status |-> 0]

CacheInit ==
    /\ rates \in {loadDefaults, EmptyMap}
    /\ CacheStart
    /\ LexIdle
    /\ ParseIdle
    /\ EngineIdle
    /\ ConcIdle
    /\ KeysIdle
    /\ ClientIdle

CacheNext ==
    \/ \E p \in CodePairs, r \in RateInputs : SetRate(p[1], p[2], r)
    \/ \E p \in QueryPairs : GetRate(p[1], p[2])
    \/ \E m \in RawInputs : ApplyRawRates(m)
    \/ RateCacheClear
    \/ SaveToFile
    \/ LoadFromFile
    \/ Tick

SpecCache == CacheInit /\ [][CacheNext]_vars

(***************************************************************************)
(* LEXER (internal/lexer/lexer.go).                                        *)
(*                                                                         *)
(* The input is a sequence of bytes.  An ASCII byte is the one-character   *)
(* string; "E2", "82" and "AC" are the three bytes of the euro sign.  Go   *)
(* offsets are 0-based: byte i of the input is input[i + 1].               *)
(***************************************************************************)
EOFCh == "EOF"

ReplacementChar == "U+FFFD"

Digits == {"0", "1", "2", "3", "4", "5", "6", "7", "8", "9"}

AlphaL == <<"a", "b", "c", "d", "e", "f", "g", "h", "i", "j", "k", "l", "m",
            "n", "o", "p", "q", "r", "s", "t", "u", "v", "w", "x", "y", "z">>

AlphaU == <<"A", "B", "C", "D", "E", "F", "G", "H", "I", "J", "K", "L", "M",
            "N", "O", "P", "Q", "R", "S", "T", "U", "V", "W", "X", "Y", "Z">>

Range(f) == {f[i] : i \in DOMAIN f}

isDigit(ch) == ch \in Digits

isLetter(ch) == ch \in Range(AlphaL) \cup Range(AlphaU) \cup {"_"}

ToLowerCh(c) ==
    IF c \in Range(AlphaU) THEN AlphaL[CHOOSE i \in DOMAIN AlphaU : AlphaU[i] = c]
    ELSE c

ToUpperCh(c) ==
    IF c \in Range(AlphaL) THEN AlphaU[CHOOSE i \in DOMAIN AlphaL : AlphaL[i] = c]
    ELSE c

ToLowerStr(s) == [i \in DOMAIN s |-> ToLowerCh(s[i])]

ToUpperStr(s) == [i \in DOMAIN s |-> ToUpperCh(s[i])]

\* The runes of three bytes that start with E2.
Rune3(b2, b3) ==
    IF b2 = "82" /\ b3 = "AC" THEN "EURO"
    ELSE IF b2 = "82" /\ b3 = "82" THEN "U+2082"
    ELSE IF b2 = "AC" /\ b3 = "82" THEN "U+2B02"
    ELSE "U+2B2C"

\* The UTF-8 bytes strings.Builder.WriteRune and string(rune) produce.
RuneBytes(r) ==
    IF r = "EURO" THEN <<"E2", "82", "AC">>
    ELSE IF r = "U+2082" THEN <<"E2", "82", "82">>
    ELSE IF r = "U+2B02" THEN <<"E2", "AC", "82">>
    ELSE IF r = "U+2B2C" THEN <<"E2", "AC", "AC">>
    ELSE IF r = ReplacementChar THEN <<"EF", "BF", "BD">>
    ELSE <<r>>

IsContinuationByte(b) == b \in {"82", "AC"}

\* decodeRune over the bytes of the model: ASCII, the lead byte E2 of a
\* three-byte sequence, and the continuation bytes 82 and AC.
decodeRune(s) ==
    IF Len(s) = 0 THEN [r |-> EOFCh, size |-> 0]
    ELSE IF s[1] # "E2" /\ ~IsContinuationByte(s[1]) THEN [r |-> s[1], size |-> 1]
    ELSE IF s[1] # "E2" THEN [r |-> ReplacementChar, size |-> 1]
    ELSE IF Len(s) < 3 THEN [r |-> ReplacementChar, size |-> 1]
    ELSE IF ~IsContinuationByte(s[2]) \/ ~IsContinuationByte(s[3])
         THEN [r |-> ReplacementChar, size |-> 1]
    ELSE [r |-> Rune3(s[2], s[3]), size |-> 3]

Rest(input, i) == SubSeq(input, i + 1, Len(input))

readChar(l) ==
    LET atEnd == l.readPos >= Len(l.input)
        d     == decodeRune(Rest(l.input, l.readPos))
        c     == IF atEnd THEN EOFCh ELSE d.r
        rp    == IF atEnd THEN l.readPos ELSE l.readPos + d.size - 1
    IN  [l EXCEPT !.ch = c, !.pos = rp, !.readPos = rp + 1,
                  !.col = IF c = "\n" THEN 0 ELSE l.col + 1]

NewLexer(input) ==
    readChar([input |-> input, pos |-> 0, readPos |-> 0, ch |-> EOFCh, col |-> 0])

peekChar(l) ==
    IF l.readPos >= Len(l.input) THEN EOFCh
    ELSE decodeRune(Rest(l.input, l.readPos)).r

RECURSIVE skipWhitespace(_)
skipWhitespace(l) ==
    IF l.ch \in {" ", "\t", "\r"} THEN skipWhitespace(readChar(l)) ELSE l

Tok(type, literal, pos) == [type |-> type, literal |-> literal, pos |-> pos]

ExprStartChars == {"+", "-", "*", "/", "^", "(", "=", ","}

\* The look-back of isStartOfExpression: from byte i down to byte 0.
RECURSIVE lookBack(_, _)
lookBack(l, i) ==
    IF i < 0 THEN TRUE
    ELSE IF l.input[i + 1] \in {" ", "\t"} THEN lookBack(l, i - 1)
    ELSE l.input[i + 1] \in ExprStartChars

isStartOfExpression(l) ==
    IF l.pos <= 1 THEN TRUE ELSE lookBack(l, l.pos - 2)

\* The loops of readNumber.  A reader state is [l, sb, hasDigits].
RECURSIVE readIntegerPart(_)
readIntegerPart(st) ==
    IF isDigit(st.l.ch)
    THEN readIntegerPart([l |-> readChar(st.l), sb |-> Append(st.sb, st.l.ch),
                          hasDigits |-> TRUE])
    ELSE IF st.l.ch = "," /\ isDigit(peekChar(st.l))
    THEN readIntegerPart([st EXCEPT !.l = readChar(st.l)])
    ELSE st

RECURSIVE readDigits(_)
readDigits(st) ==
    IF isDigit(st.l.ch)
    THEN readDigits([st EXCEPT !.l = readChar(st.l), !.sb = Append(st.sb, st.l.ch)])
    ELSE st

readSign(st) ==
    IF st.l.ch = "-"
    THEN [st EXCEPT !.l = readChar(st.l), !.sb = Append(st.sb, "-")]
    ELSE st

readDecimalPart(st) ==
    IF st.l.ch = "." /\ isDigit(peekChar(st.l))
    THEN readDigits([st EXCEPT !.l = readChar(st.l), !.sb = Append(st.sb, ".")])
    ELSE IF st.l.ch = "." /\ ~st.hasDigits
    THEN readDigits([st EXCEPT !.l = readChar(st.l), !.sb = st.sb \o <<"0", ".">>])
    ELSE st

readExponent(st) ==
    IF st.l.ch \in {"e", "E"}
    THEN LET s1 == [st EXCEPT !.l = readChar(st.l), !.sb = Append(st.sb, st.l.ch)]
             s2 == IF s1.l.ch \in {"+", "-"}
                   THEN [s1 EXCEPT !.l = readChar(s1.l), !.sb = Append(s1.sb, s1.l.ch)]
                   ELSE s1
         IN  readDigits(s2)
    ELSE st

readNumber(l, startPos) ==
    LET st == readExponent(readDecimalPart(readIntegerPart(
                  readSign([l |-> l, sb |-> <<>>, hasDigits |-> FALSE]))))
    IN  IF st.l.ch = "%"
        THEN [l |-> readChar(st.l), tok |-> Tok("PERCENT", Append(st.sb, "%"), startPos)]
        ELSE [l |-> st.l, tok |-> Tok("NUMBER", st.sb, startPos)]

\* token.Keywords and token.LookupIdentifier.
LookupIdentifier(ident) ==
    IF ident = <<"i", "n">> \/ ident = <<"t", "o">> THEN "IN"
    ELSE IF ident = <<"o", "f">> THEN "OF"
    ELSE "IDENTIFIER"

RECURSIVE readWord(_, _)
readWord(st, withDigits) ==
    IF isLetter(st.l.ch) \/ (withDigits /\ isDigit(st.l.ch)) \/ st.l.ch = "_"
    THEN readWord([st EXCEPT !.l = readChar(st.l), !.sb = Append(st.sb, st.l.ch)],
                  withDigits)
    ELSE st

\* multiWordPrefixes (four of its sixteen rows).
multiWordPrefixes(lower) ==
    IF lower = <<"s", "q", "u", "a", "r", "e">>
    THEN <<(<<"m", "e", "t", "e", "r">>), (<<"m", "e", "t", "e", "r", "s">>),
           (<<"f", "o", "o", "t">>), (<<"f", "e", "e", "t">>),
           (<<"m", "i", "l", "e">>), (<<"m", "i", "l", "e", "s">>),
           (<<"k", "i", "l", "o", "m", "e", "t", "e", "r">>),
           (<<"k", "i", "l", "o", "m", "e", "t", "e", "r", "s">>)>>
    ELSE IF lower = <<"u", "s">>
    THEN <<(<<"d", "o", "l", "l", "a", "r">>), (<<"d", "o", "l", "l", "a", "r", "s">>)>>
    ELSE IF lower = <<"h", "o", "n", "g">>
    THEN <<(<<"k", "o", "n", "g">>), (<<"d", "o", "l", "l", "a", "r">>)>>
    ELSE IF lower = <<"t", "u", "r", "k", "i", "s", "h">>
    THEN <<(<<"l", "i", "r", "a">>)>>
    ELSE <<>>

\* The loop `for _, expected := range expectedWords` of
\* tryReadMultiWordIdentifier; mw is [l, words].
RECURSIVE readExpectedWords(_, _)
readExpectedWords(mw, expectedWords) ==
    IF expectedWords = <<>> THEN mw
    ELSE LET l1 == skipWhitespace(mw.l)
         IN  IF ~isLetter(l1.ch) THEN [mw EXCEPT !.l = l1]
             ELSE LET wordStart == l1.pos
                      w == readWord([l |-> l1, sb |-> <<>>], FALSE)
                  IN  IF ToLowerStr(w.sb) = Head(expectedWords)
                      THEN readExpectedWords(
                               [l |-> w.l, words |-> Append(mw.words, w.sb)],
                               Tail(expectedWords))
                      ELSE [mw EXCEPT !.l =
                               [w.l EXCEPT !.pos = wordStart,
                                           !.readPos = wordStart + 1,
                                           !.ch = IF wordStart < Len(l1.input)
                                                  THEN l1.input[wordStart + 1]
                                                  ELSE EOFCh]]

RECURSIVE JoinWords(_)
JoinWords(words) ==
    IF Len(words) = 1 THEN words[1]
    ELSE words[1] \o <<" ">> \o JoinWords(Tail(words))

\* Returns [l, multiWord]; multiWord = <<>> stands for the empty string.
tryReadMultiWordIdentifier(l, first) ==
    LET expectedWords == multiWordPrefixes(ToLowerStr(first))
        mw == readExpectedWords([l |-> l, words |-> <<first>>], expectedWords)
    IN  IF expectedWords = <<>> THEN [l |-> l, multiWord |-> <<>>]
        ELSE IF Len(mw.words) = 1 THEN [l |-> l, multiWord |-> <<>>]
        ELSE [l |-> mw.l, multiWord |-> JoinWords(mw.words)]

readIdentifier(l, startPos) ==
    LET w == readWord([l |-> l, sb |-> <<>>], TRUE)
        tokType == LookupIdentifier(ToLowerStr(w.sb))
        multi == tryReadMultiWordIdentifier(w.l, w.sb)
    IN  IF tokType # "IDENTIFIER" THEN [l |-> w.l, tok |-> Tok(tokType, w.sb, startPos)]
        ELSE IF multi.multiWord # <<>>
        THEN [l |-> multi.l, tok |-> Tok("IDENTIFIER", multi.multiWord, startPos)]
        ELSE [l |-> w.l, tok |-> Tok("IDENTIFIER", w.sb, startPos)]

RECURSIVE readToEOL(_)
readToEOL(st) ==
    IF st.l.ch # "\n" /\ st.l.ch # EOFCh
    THEN readToEOL([st EXCEPT !.l = readChar(st.l),
                              !.sb = st.sb \o RuneBytes(st.l.ch)])
    ELSE st

readComment(l, startPos) ==
    LET s1 == [l |-> readChar(l), sb |-> <<l.ch>>]
        s2 == IF l.ch = "/" /\ s1.l.ch = "/"
              THEN [l |-> readChar(s1.l), sb |-> Append(s1.sb, "/")]
              ELSE s1
        s3 == readToEOL(s2)
    IN  [l |-> s3.l, tok |-> Tok("COMMENT", s3.sb, startPos)]

\* types.IsCurrencySymbolRune / IsCryptoSymbolRune: the one-rune symbols of the
\* registries (the dollar and the euro sign stand for them).
IsCurrencySymbolRune(ch) == ch \in {"$", "EURO"}

IsCryptoSymbolRune(ch) == FALSE

\* token.LookupCurrencySymbol, which readCurrencySymbol calls with
\* rune(symbol[0]): the first byte of the symbol, not its first rune.
LookupCurrencySymbol(firstByte) ==
    IF firstByte = "$" THEN "DOLLAR"
    ELSE IF firstByte = "EURO" THEN "EURO"
    ELSE "ILLEGAL"

readCurrencySymbol(l, startPos) ==
    LET symbol == RuneBytes(l.ch)
    IN  [l |-> readChar(l), tok |-> Tok(LookupCurrencySymbol(symbol[1]), symbol, startPos)]

SingleCharTokens ==
    [c \in {"+", "/", "^", "(", ")", "=", ",", "%", "\n"} |->
        CASE c = "+" -> "PLUS"
          [] c = "/" -> "SLASH"
          [] c = "^" -> "CARET"
          [] c = "(" -> "LPAREN"
          [] c = ")" -> "RPAREN"
          [] c = "=" -> "EQUALS"
          [] c = "," -> "COMMA"
          [] c = "%" -> "PERCENT"
          [] c = "\n" -> "NEWLINE"]

NextToken(l0) ==
    LET l == skipWhitespace(l0)
        startPos == l.pos
    IN  IF l.ch = EOFCh THEN [l |-> l, tok |-> Tok("EOF", <<>>, startPos)]
        ELSE IF l.ch = "#" \/ (l.ch = "/" /\ peekChar(l) = "/")
        THEN readComment(l, startPos)
        ELSE IF IsCurrencySymbolRune(l.ch) \/ IsCryptoSymbolRune(l.ch)
        THEN readCurrencySymbol(l, startPos)
        ELSE IF isDigit(l.ch) \/ (l.ch = "." /\ isDigit(peekChar(l)))
        THEN readNumber(l, startPos)
        ELSE IF l.ch = "-"
        THEN IF isDigit(peekChar(l)) /\ isStartOfExpression(l)
             THEN readNumber(l, startPos)
             ELSE [l |-> readChar(l), tok |-> Tok("MINUS", <<"-">>, startPos)]
        ELSE IF l.ch = "*"
        THEN IF peekChar(l) = "*"
             THEN [l |-> readChar(readChar(l)), tok |-> Tok("POWER", <<"*", "*">>, startPos)]
             ELSE [l |-> readChar(l), tok |-> Tok("STAR", <<"*">>, startPos)]
        ELSE IF l.ch \in DOMAIN SingleCharTokens
        THEN [l |-> readChar(l), tok |-> Tok(SingleCharTokens[l.ch], <<l.ch>>, startPos)]
        ELSE IF isLetter(l.ch) \/ l.ch = "_"
        THEN readIdentifier(l, startPos)
        ELSE [l |-> readChar(l), tok |-> Tok("ILLEGAL", RuneBytes(l.ch), startPos)]

RECURSIVE tokenizeFrom(_)
tokenizeFrom(l) ==
    With(NextToken(l), LAMBDA nt :
      IF nt.tok.type = "EOF" THEN <<nt.tok>>
      ELSE <<nt.tok>> \o tokenizeFrom(nt.l))

Tokenize(input) == tokenizeFrom(NewLexer(input))

(***************************************************************************)
(* Names of the registries (internal/types, pkg/types).  A name is the     *)
(* byte sequence of an identifier; a registry entry is known by its code,  *)
(* "" standing for the nil pointer.  One entry of each registry is kept    *)
(* with its code and one alias (two currencies, three units).              *)
(***************************************************************************)
NoCode == ""

CodeNames ==
    [c \in {"USD", "EUR", "BTC", "XAU"} |->
        CASE c = "USD" -> <<"U", "S", "D">>
          [] c = "EUR" -> <<"E", "U", "R">>
          [] c = "BTC" -> <<"B", "T", "C">>
          [] c = "XAU" -> <<"X", "A", "U">>]

\* CurrencyRegistry.Lookup: by symbol, by upper-cased code, by lower-cased alias.
ParseCurrency(s) ==
    IF s = <<"$">> THEN "USD"
    ELSE IF s = <<"E2", "82", "AC">> THEN "EUR"
    ELSE IF ToUpperStr(s) = CodeNames["USD"] THEN "USD"
    ELSE IF ToUpperStr(s) = CodeNames["EUR"] THEN "EUR"
    ELSE IF ToLowerStr(s) = <<"d", "o", "l", "l", "a", "r", "s">> THEN "USD"
    ELSE IF ToLowerStr(s) = <<"e", "u", "r", "o">> THEN "EUR"
    ELSE NoCode

LookupCurrencyBySymbol(symbol) ==
    IF symbol = <<"$">> THEN "USD"
    ELSE IF symbol = <<"E2", "82", "AC">> THEN "EUR"
    ELSE NoCode

\* CryptoRegistry.Lookup (the symbol of BTC is a three-byte rune outside the
\* bytes of the model).
ParseCrypto(s) ==
    IF ToUpperStr(s) = CodeNames["BTC"] THEN "BTC"
    ELSE IF ToLowerStr(s) = <<"b", "i", "t", "c", "o", "i", "n">> THEN "BTC"
    ELSE NoCode

\* MetalRegistry.Lookup.
ParseMetal(s) ==
    IF ToUpperStr(s) = CodeNames["XAU"] THEN "XAU"
    ELSE IF ToLowerStr(s) = <<"g", "o", "l", "d">> THEN "XAU"
    ELSE NoCode

\* UnitRegistry.Lookup: exact code, lower-cased code, lower-cased alias.
ParseUnit(s) ==
    IF ToLowerStr(s) = <<"m">> THEN "m"
    ELSE IF ToLowerStr(s) = <<"k", "m">> THEN "km"
    ELSE IF ToLowerStr(s) = <<"k", "g">> THEN "kg"
    ELSE IF ToLowerStr(s) = <<"m", "e", "t", "e", "r", "s">> THEN "m"
    ELSE NoCode

(***************************************************************************)
(* strconv.ParseFloat on what the lexer emits:                             *)
(* [-]digits[.digits][(e|E)[+|-]digits].                                   *)
(***************************************************************************)
DigitSeq == <<"0", "1", "2", "3", "4", "5", "6", "7", "8", "9">>

DigitVal(c) == (CHOOSE i \in DOMAIN DigitSeq : DigitSeq[i] = c) - 1

AllDigits(s) == \A i \in DOMAIN s : isDigit(s[i])

RECURSIVE DigitsVal(_)
DigitsVal(s) ==
    IF s = <<>> THEN 0
    ELSE 10 * DigitsVal(SubSeq(s, 1, Len(s) - 1)) + DigitVal(s[Len(s)])

RECURSIVE Pow10(_)
Pow10(n) == IF n = 0 THEN 1 ELSE 10 * Pow10(n - 1)

\* The first index of s holding a member of set, or 0.
IndexOf(s, set) ==
    LET hits == {i \in DOMAIN s : s[i] \in set}
    IN  IF hits = {} THEN 0 ELSE CHOOSE i \in hits : \A j \in hits : i <= j

parseFloat(s0) ==
    LET s     == SelectSeq(s0, LAMBDA c : c # ",")
        neg   == s # <<>> /\ s[1] = "-"
        body  == IF neg THEN Tail(s) ELSE s
        ePos  == IndexOf(body, {"e", "E"})
        mant  == IF ePos = 0 THEN body ELSE SubSeq(body, 1, ePos - 1)
        expo  == IF ePos = 0 THEN <<>> ELSE SubSeq(body, ePos + 1, Len(body))
        eNeg  == expo # <<>> /\ expo[1] = "-"
        eDig  == IF expo # <<>> /\ expo[1] \in {"+", "-"} THEN Tail(expo) ELSE expo
        dot   == IndexOf(mant, {"."})
        whole == IF dot = 0 THEN mant ELSE SubSeq(mant, 1, dot - 1)
        frac  == IF dot = 0 THEN <<>> ELSE SubSeq(mant, dot + 1, Len(mant))
        ok    == /\ AllDigits(whole) /\ AllDigits(frac)
                 /\ Len(whole) + Len(frac) > 0
                 /\ ePos # 0 => (eDig # <<>> /\ AllDigits(eDig))
        m     == Rat(DigitsVal(whole) * Pow10(Len(frac)) + DigitsVal(frac),
                     Pow10(Len(frac)))
        scale == IF eNeg THEN Rat(1, Pow10(DigitsVal(eDig)))
                 ELSE Rat(Pow10(DigitsVal(eDig)), 1)
        v     == RMul(m, scale)
    IN  IF ~ok THEN [ok |-> FALSE, value |-> Zero]
        ELSE [ok |-> TRUE, value |-> IF neg THEN RNeg(v) ELSE v]

(***************************************************************************)
(* AST (internal/ast/ast.go).  A node is a record with a kind; Nil is the  *)
(* nil expression.  The Raw text of a literal is left out.                 *)
(***************************************************************************)
Nil == [kind |-> "nil"]

NumberLit(v) == [kind |-> "NumberLit", Value |-> v]

PercentLit(v) == [kind |-> "PercentLit", Value |-> v]

CurrencyLit(amount, code) == [kind |-> "CurrencyLit", Amount |-> amount, Currency |-> code]

CryptoLit(amount, code) == [kind |-> "CryptoLit", Amount |-> amount, Crypto |-> code]

MetalLit(amount, code) == [kind |-> "MetalLit", Amount |-> amount, Metal |-> code]

UnitLit(amount, code) == [kind |-> "UnitLit", Amount |-> amount, Unit |-> code]

Identifier(name) == [kind |-> "Identifier", Name |-> name]

BinaryExpr(left, op, right) ==
    [kind |-> "BinaryExpr", Left |-> left, Op |-> op, Right |-> right]

UnaryExpr(op, expr) == [kind |-> "UnaryExpr", Op |-> op, Expr |-> expr]

GroupExpr(expr) == [kind |-> "GroupExpr", Expr |-> expr]

PercentOfExpr(percent, value) ==
    [kind |-> "PercentOfExpr", Percent |-> percent, Value |-> value]

ConversionExpr(value, target) ==
    [kind |-> "ConversionExpr", Value |-> value, Target |-> target]

CallExpr(name, args) == [kind |-> "CallExpr", Name |-> name, Args |-> args]

ContinuationExpr(op, expr) == [kind |-> "ContinuationExpr", Op |-> op, Expr |-> expr]

ConversionContinuation(target) == [kind |-> "ConversionContinuation", Target |-> target]

EmptyStmt == [kind |-> "EmptyStmt"]

CommentStmt(text) == [kind |-> "CommentStmt", Text |-> text]

ExprStmt(expr) == [kind |-> "ExprStmt", Expr |-> expr]

AssignStmt(name, expr) == [kind |-> "AssignStmt", Name |-> name, Expr |-> expr]

Line(stmt, comment) == [Stmt |-> stmt, Comment |-> comment]

\* BinaryOp.Precedence ranking the multiplicative operators with the additive.
PrecedenceFlat(op) ==
    IF op \in {"OpAdd", "OpSub", "OpMul", "OpDiv", "OpMod"} THEN 1
    ELSE IF op = "OpPow" THEN 3
    ELSE 0

\* BinaryOp.Precedence.
Precedence(op) ==
    IF op \in {"OpAdd", "OpSub"} THEN 1
    ELSE IF op \in {"OpMul", "OpDiv", "OpMod"} THEN 2
    ELSE IF op = "OpPow" THEN 3
    ELSE 0

(***************************************************************************)
(* PARSER (internal/parser/parser.go).  A parser is [input, tokens, pos,   *)
(* errors]; every parse function returns the parser it leaves behind and   *)
(* the node it built: [p, e].                                              *)
(***************************************************************************)
NewParser(input) ==
    [input |-> input, tokens |-> Tokenize(input), pos |-> 0, errors |-> <<>>]

current(p) ==
    IF p.pos >= Len(p.tokens) THEN Tok("EOF", <<>>, 0 - 1) ELSE p.tokens[p.pos + 1]

peek(p) ==
    IF p.pos + 1 >= Len(p.tokens) THEN Tok("EOF", <<>>, 0 - 1) ELSE p.tokens[p.pos + 2]

advance(p) == IF p.pos < Len(p.tokens) THEN [p EXCEPT !.pos = p.pos + 1] ELSE p

check(p, t) == current(p).type = t

checkAny(p, ts) == current(p).type \in ts

\* addError / addErrorf: the message, its argument and the current position.
addErrorf(p, msg, arg) ==
    [p EXCEPT !.errors = Append(p.errors, [msg |-> msg, arg |-> arg, pos |-> current(p).pos])]

addError(p, msg) == addErrorf(p, msg, <<>>)

expect(p, t, msg) == IF check(p, t) THEN advance(p) ELSE addError(p, msg)

BinaryOpTokens == {"PLUS", "MINUS", "STAR", "SLASH", "CARET", "POWER"}

isBinaryOp(p) == checkAny(p, BinaryOpTokens)

currentBinaryOp(p) ==
    LET t == current(p).type
    IN  IF t = "PLUS" THEN "OpAdd"
        ELSE IF t = "MINUS" THEN "OpSub"
        ELSE IF t = "STAR" THEN "OpMul"
        ELSE IF t = "SLASH" THEN "OpDiv"
        ELSE IF t \in {"CARET", "POWER"} THEN "OpPow"
        ELSE "OpAdd"

PE(p, e) == [p |-> p, e |-> e]

parseNumber(p0) ==
    LET tok == current(p0)
        p   == advance(p0)
        suffix == current(p).literal
    IN  With(parseFloat(tok.literal), LAMBDA f :
          IF ~f.ok THEN PE(addErrorf(p, "invalid number", tok.literal), NumberLit(Zero))
          ELSE IF ~check(p, "IDENTIFIER") THEN PE(p, NumberLit(f.value))
          ELSE IF ParseCurrency(suffix) # NoCode
          THEN PE(advance(p), CurrencyLit(f.value, ParseCurrency(suffix)))
          ELSE IF ParseCrypto(suffix) # NoCode
          THEN PE(advance(p), CryptoLit(f.value, ParseCrypto(suffix)))
          ELSE IF ParseMetal(suffix) # NoCode
          THEN PE(advance(p), MetalLit(f.value, ParseMetal(suffix)))
          ELSE IF ParseUnit(suffix) # NoCode
          THEN PE(advance(p), UnitLit(f.value, ParseUnit(suffix)))
          ELSE PE(p, NumberLit(f.value)))

TrimPercentSuffix(lit) ==
    IF lit # <<>> /\ lit[Len(lit)] = "%" THEN SubSeq(lit, 1, Len(lit) - 1) ELSE lit

parsePercent(p0) ==
    LET tok == current(p0)
        p   == advance(p0)
    IN  With(parseFloat(TrimPercentSuffix(tok.literal)), LAMBDA f :
          IF ~f.ok THEN PE(addErrorf(p, "invalid percentage", tok.literal), PercentLit(Zero))
          ELSE PE(p, PercentLit(RMul(f.value, <<1, 100>>))))

\* The literal parseCurrencyWithSymbol builds for the symbol's registry entry.
symbolLit(symbol, amount) ==
    LET curr   == LookupCurrencyBySymbol(symbol)
        crypto == ParseCrypto(symbol)
    IN  IF curr # NoCode THEN CurrencyLit(amount, curr)
        ELSE IF crypto # NoCode THEN CryptoLit(amount, crypto)
        ELSE NumberLit(amount)

parseCurrencyWithSymbol(p0) ==
    LET symbol == current(p0).literal
        p      == advance(p0)
        numTok == current(p)
    IN  IF ~check(p, "NUMBER")
        THEN PE(addError(p, "expected number after currency symbol"), symbolLit(symbol, Zero))
        ELSE With(parseFloat(numTok.literal), LAMBDA f :
               IF f.ok THEN PE(advance(p), symbolLit(symbol, f.value))
               ELSE PE(addErrorf(advance(p), "invalid number", numTok.literal),
                       symbolLit(symbol, Zero)))

RECURSIVE parseBinaryExpr(_, _), binaryLoop(_, _, _), parseUnaryExpr(_),
          parsePostfixExpr(_), parsePrimaryExpr(_), parseArgs(_, _),
          parseFunctionCall(_, _), parseGroupExpr(_), parseIdentifierOrValue(_)

parseExpression(p) == parseBinaryExpr(p, 0)

\* The `for` loop of parseBinaryExpr; early marks its `return left`.
binaryLoop(p, left, minPrec) ==
    LET op   == currentBinaryOp(p)
        prec == Precedence(op)
        rightPrec == IF op = "OpPow" THEN prec ELSE prec + 1
    IN  IF ~isBinaryOp(p) \/ prec < minPrec
        THEN [p |-> p, e |-> left, early |-> FALSE]
        ELSE With(parseBinaryExpr(advance(p), rightPrec), LAMBDA r :
               IF r.e = Nil
               THEN [p |-> addError(r.p, "expected expression after operator"),
                     e |-> left, early |-> TRUE]
               ELSE binaryLoop(r.p, BinaryExpr(left, op, r.e), minPrec))

\* The trailing `in`/`to` test that closes parseBinaryExpr.
conversionSuffix(p, left) ==
    LET afterIn == advance(p)
    IN  IF ~check(p, "IN") THEN PE(p, left)
        ELSE IF check(afterIn, "IDENTIFIER")
        THEN PE(advance(afterIn), ConversionExpr(left, current(afterIn).literal))
        ELSE PE(afterIn, left)

parseBinaryExpr(p, minPrec) ==
    With(parseUnaryExpr(p), LAMBDA u :
      IF u.e = Nil THEN u
      ELSE With(binaryLoop(u.p, u.e, minPrec), LAMBDA b :
             IF b.early THEN PE(b.p, b.e) ELSE conversionSuffix(b.p, b.e)))

parseUnaryExpr(p) ==
    IF checkAny(p, {"MINUS", "PLUS"})
    THEN With(parseUnaryExpr(advance(p)), LAMBDA r :
           IF r.e = Nil THEN r
           ELSE PE(r.p, UnaryExpr(IF check(p, "MINUS") THEN "OpNeg" ELSE "OpPos", r.e)))
    ELSE parsePostfixExpr(p)

parsePostfixExpr(p) ==
    With(parsePrimaryExpr(p), LAMBDA r :
      IF r.e = Nil THEN r
      ELSE IF check(r.p, "OF") /\ r.e.kind = "PercentLit"
      THEN With(parseUnaryExpr(advance(r.p)), LAMBDA v :
             IF v.e = Nil THEN PE(addError(v.p, "expected expression after 'of'"), r.e)
             ELSE PE(v.p, PercentOfExpr(r.e, v.e)))
      ELSE r)

parsePrimaryExpr(p) ==
    LET t == current(p).type
    IN  IF t = "NUMBER" THEN parseNumber(p)
        ELSE IF t = "PERCENT" THEN parsePercent(p)
        ELSE IF t \in {"DOLLAR", "EURO", "POUND", "YEN", "BITCOIN", "CURRENCY"}
        THEN parseCurrencyWithSymbol(p)
        ELSE IF t = "IDENTIFIER" THEN parseIdentifierOrValue(p)
        ELSE IF t = "LPAREN" THEN parseGroupExpr(p)
        ELSE IF t \in {"EOF", "NEWLINE", "COMMENT", "RPAREN", "COMMA"} THEN PE(p, Nil)
        ELSE PE(addErrorf(p, "unexpected token", current(p).literal), Nil)

parseIdentifierOrValue(p0) ==
    LET name == current(p0).literal
        p    == advance(p0)
    IN  IF check(p, "LPAREN") THEN parseFunctionCall(p, name)
        ELSE IF ToLowerStr(name) \in {<<"_">>, <<"a", "n", "s">>}
        THEN PE(p, Identifier(<<"_">>))
        ELSE PE(p, Identifier(name))

\* The argument loop of parseFunctionCall; the result is [p, e] with e the args.
parseArgs(p, args) ==
    With(parseExpression(p), LAMBDA a :
      LET as == IF a.e = Nil THEN args ELSE Append(args, a.e)
      IN  IF check(a.p, "COMMA") THEN parseArgs(advance(a.p), as)
          ELSE PE(a.p, as))

parseFunctionCall(p0, name) ==
    With(IF check(advance(p0), "RPAREN") THEN PE(advance(p0), <<>>)
         ELSE parseArgs(advance(p0), <<>>),
         LAMBDA r : PE(expect(r.p, "RPAREN", "expected ')' after function arguments"),
                       CallExpr(name, r.e)))

parseGroupExpr(p0) ==
    With(parseExpression(advance(p0)), LAMBDA r :
      IF r.e = Nil
      THEN PE(expect(addError(r.p, "expected expression inside parentheses"),
                     "RPAREN", "expected ')' after expression"),
              GroupExpr(NumberLit(Zero)))
      ELSE PE(expect(r.p, "RPAREN", "expected ')' after expression"), GroupExpr(r.e)))

parseAssignment(p0) ==
    With(parseExpression(advance(advance(p0))), LAMBDA r :
      IF r.e = Nil
      THEN PE(addError(r.p, "expected expression after '='"),
              AssignStmt(current(p0).literal, NumberLit(Zero)))
      ELSE PE(r.p, AssignStmt(current(p0).literal, r.e)))

parseContinuation(p0) ==
    With(parseExpression(advance(p0)), LAMBDA r :
      IF r.e = Nil
      THEN PE(addError(r.p, "expected expression after operator"), EmptyStmt)
      ELSE PE(r.p, ExprStmt(ContinuationExpr(currentBinaryOp(p0), r.e))))

parseConversionContinuation(p0) ==
    LET p == advance(p0)
    IN  IF ~check(p, "IDENTIFIER")
        THEN PE(addError(p, "expected unit or currency after 'in'/'to'"), EmptyStmt)
        ELSE PE(advance(p), ExprStmt(ConversionContinuation(current(p).literal)))

parseStatement(p) ==
    IF check(p, "IDENTIFIER") /\ peek(p).type = "EQUALS" THEN parseAssignment(p)
    ELSE IF isBinaryOp(p) THEN parseContinuation(p)
    ELSE IF check(p, "IN") THEN parseConversionContinuation(p)
    ELSE With(parseExpression(p), LAMBDA r :
           IF r.e = Nil THEN PE(r.p, EmptyStmt) ELSE PE(r.p, ExprStmt(r.e)))

RECURSIVE skipNewlines(_)
skipNewlines(p) == IF check(p, "NEWLINE") THEN skipNewlines(advance(p)) ELSE p

\* Parser.ParseLine after the leading newlines: [p, e] with e the ast.Line.
parseLineAt(p) ==
    IF check(p, "EOF") THEN PE(p, Line(EmptyStmt, <<>>))
    ELSE IF check(p, "COMMENT")
    THEN PE(advance(p), Line(CommentStmt(current(p).literal), current(p).literal))
    ELSE With(parseStatement(p), LAMBDA r :
           IF check(r.p, "COMMENT") THEN PE(advance(r.p), Line(r.e, current(r.p).literal))
           ELSE PE(r.p, Line(r.e, <<>>)))

ParserParseLine(p0) == With(skipNewlines(p0), LAMBDA p : parseLineAt(p))

\* parser.ParseLine(input): the line and the errors.
ParseLine(input) ==
    With(ParserParseLine(NewParser(input)), LAMBDA r : [line |-> r.e, errs |-> r.p.errors])

(***************************************************************************)
(* VALUES (pkg/types/value.go).  A pointer into a registry is the code of  *)
(* the entry, NoCode standing for nil.                                     *)
(***************************************************************************)
Empty ==
    [Kind |-> "Empty", Num |-> Zero, Curr |-> NoCode, Unit |-> NoCode,
     Metal |-> NoCode, Crypto |-> NoCode, Err |-> ""]

Number(n) == [Empty EXCEPT !.Kind = "Number", !.Num = n]

Percentage(pc) == [Empty EXCEPT !.Kind = "Percentage", !.Num = pc]

CurrencyValue(amount, curr) == [Empty EXCEPT !.Kind = "Currency", !.Num = amount, !.Curr = curr]

UnitValue(amount, unit) == [Empty EXCEPT !.Kind = "WithUnit", !.Num = amount, !.Unit = unit]

MetalValue(amount, metal) == [Empty EXCEPT !.Kind = "Metal", !.Num = amount, !.Metal = metal]

CryptoValue(amount, crypto) ==
    [Empty EXCEPT !.Kind = "Crypto", !.Num = amount, !.Crypto = crypto]

\* types.Error / types.Errorf: the message without its formatted arguments.
Error(message) == [Empty EXCEPT !.Kind = "Error", !.Err = message]

IsEmpty(v) == v.Kind = "Empty"

IsError(v) == v.Kind = "Error"

IsNumeric(v) ==
    v.Kind \in {"Number", "Percentage", "Currency", "WithUnit", "Metal", "Crypto"}

IsNumber(v) == v.Kind = "Number"

IsPercentage(v) == v.Kind = "Percentage"

IsCurrency(v) == v.Kind = "Currency"

IsUnit(v) == v.Kind = "WithUnit"

AsFloat(v) == v.Num

WithAmount(v, amount) == [v EXCEPT !.Num = amount]

Negate(v) == IF IsError(v) \/ IsEmpty(v) THEN v ELSE WithAmount(v, RNeg(v.Num))

(***************************************************************************)
(* Units (pkg/types/unit.go): m and km are lengths, kg is a weight.        *)
(***************************************************************************)
UnitTypeOf(code) == IF code = "kg" THEN "Weight" ELSE "Length"

ToBase(code) == IF code = "m" THEN One ELSE <<1000, 1>>

RDiv(x, y) == RMul(x, RInv(y))

\* Unit.ConvertTo for the linear units.
ConvertTo(unit, value, target) ==
    IF UnitTypeOf(unit) # UnitTypeOf(target) THEN [ok |-> FALSE, value |-> Zero]
    ELSE [ok |-> TRUE, value |-> RDiv(RMul(value, ToBase(unit)), ToBase(target))]

(***************************************************************************)
(* float64 functions on the rationals of the model.                        *)
(***************************************************************************)
RFloor(x) == Rat(x[1] \div x[2], 1)

RCeil(x) == RNeg(RFloor(RNeg(x)))

RTrunc(x) == IF x[1] < 0 THEN RCeil(x) ELSE RFloor(x)

RAbs(x) == <<Abs(x[1]), x[2]>>

\* math.Round: half away from zero.
RRound(x) ==
    IF x[1] < 0 THEN RNeg(RFloor(RAdd(RNeg(x), <<1, 2>>)))
    ELSE RFloor(RAdd(x, <<1, 2>>))

\* math.Mod: the result has the sign of x.
RMod(x, y) == RSub(x, RMul(y, RTrunc(RDiv(x, y))))

\* math.Pow for the integer exponents the inputs of the model use.
RECURSIVE RPowNat(_, _)
RPowNat(x, n) == IF n = 0 THEN One ELSE RMul(x, RPowNat(x, n - 1))

RPow(x, y) ==
    CASE y[2] = 1 /\ y[1] >= 0 -> RPowNat(x, y[1])
      [] y[2] = 1 /\ y[1] < 0 /\ x # Zero -> RInv(RPowNat(x, 0 - y[1]))

(***************************************************************************)
(* EVALUATOR (internal/eval/eval.go) over a view of the context:           *)
(* c = [variables, previous, lines, strict, rates].  A rate lookup may     *)
(* have several outcomes (findRateBFS), so every evaluation function       *)
(* returns the set of values it can return.                                *)
(***************************************************************************)
\* The key a name has in the rate table: its code, or a key no table holds.
RateKey(name) ==
    IF \E code \in DOMAIN CodeNames : CodeNames[code] = name
    THEN CHOOSE code \in DOMAIN CodeNames : CodeNames[code] = name
    ELSE "?"

\* RateCache.Convert.
Convert(rt, amount, from, to) ==
    {IF o.ok THEN [ok |-> TRUE, value |-> RMul(amount, o.rate)]
     ELSE [ok |-> FALSE, value |-> Zero] : o \in GetRateOutcomes(rt, from, to)}

\* types.CurrencyFromCode for a three-letter code outside the curated list.
CurrencyFromCode(code) == code

\* RateCache.ConvertValue: the set of [ok, v].
RateCacheConvertValue(rt, v, target0) ==
    LET target == ToUpperStr(target0)
        key    == RateKey(target)
        failed == [ok |-> FALSE, v |-> v]
    IN  IF IsError(v) \/ IsEmpty(v) THEN {failed}
        ELSE IF v.Kind = "Currency"
        THEN IF v.Curr = NoCode THEN {failed}
             ELSE {IF ~cv.ok THEN failed
                   ELSE IF ParseCurrency(target) # NoCode
                   THEN [ok |-> TRUE, v |-> CurrencyValue(cv.value, ParseCurrency(target))]
                   ELSE [ok |-> TRUE, v |-> CurrencyValue(cv.value, CurrencyFromCode(key))]
                   : cv \in Convert(rt, v.Num, v.Curr, key)}
        ELSE IF v.Kind = "Crypto"
        THEN IF v.Crypto = NoCode THEN {failed}
             ELSE {IF ~cv.ok THEN failed
                   ELSE IF ParseCrypto(target) # NoCode
                   THEN [ok |-> TRUE, v |-> CryptoValue(cv.value, ParseCrypto(target))]
                   ELSE IF ParseCurrency(target) # NoCode
                   THEN [ok |-> TRUE, v |-> CurrencyValue(cv.value, ParseCurrency(target))]
                   ELSE [ok |-> TRUE, v |-> Number(cv.value)]
                   : cv \in Convert(rt, v.Num, v.Crypto, key)}
        ELSE IF v.Kind = "Metal"
        THEN IF v.Metal = NoCode THEN {failed}
             ELSE {IF ~cv.ok THEN failed
                   ELSE IF ParseCurrency(target) # NoCode
                   THEN [ok |-> TRUE, v |-> CurrencyValue(cv.value, ParseCurrency(target))]
                   ELSE [ok |-> TRUE, v |-> Number(cv.value)]
                   : cv \in Convert(rt, v.Num, v.Metal, key)}
        ELSE {failed}

\* Context.ConvertValue.
ContextConvertValue(c, v, target) ==
    IF v.Kind = "WithUnit" /\ v.Unit # NoCode
    THEN IF ParseUnit(target) # NoCode /\ ConvertTo(v.Unit, v.Num, ParseUnit(target)).ok
         THEN {[ok |-> TRUE,
                v |-> UnitValue(ConvertTo(v.Unit, v.Num, ParseUnit(target)).value,
                                ParseUnit(target))]}
         ELSE {[ok |-> FALSE, v |-> v]}
    ELSE RateCacheConvertValue(c.rates, v, target)

convertValue(c, value, target) ==
    IF IsUnit(value) /\ value.Unit # NoCode /\ ParseUnit(target) # NoCode
    THEN IF ConvertTo(value.Unit, value.Num, ParseUnit(target)).ok
         THEN {UnitValue(ConvertTo(value.Unit, value.Num, ParseUnit(target)).value,
                         ParseUnit(target))}
         ELSE {Error("cannot convert %s to %s")}
    ELSE {IF r.ok THEN r.v
          ELSE IF ParseCurrency(target) # NoCode \/ ParseCrypto(target) # NoCode
          THEN Error("no rate available for conversion to %s")
          ELSE IF ParseUnit(target) # NoCode
          THEN Error("cannot convert to %s (incompatible types)")
          ELSE Error("unknown target: %s")
          : r \in ContextConvertValue(c, value, target)}

\* Context.calculateTotal.
RECURSIVE sumLines(_)
sumLines(lines) ==
    IF lines = <<>> THEN Zero
    ELSE LET lr == lines[Len(lines)]
             rest == sumLines(SubSeq(lines, 1, Len(lines) - 1))
         IN  IF ~lr.IsConsumed /\ IsNumeric(lr.Value) THEN RAdd(rest, AsFloat(lr.Value))
             ELSE rest

calculateTotal(c) == Number(sumLines(c.lines))

\* Context.GetVariable: [v, ok].
GetVariable(c, name) ==
    LET lower == ToLowerStr(name)
    IN  IF lower = <<"_">> \/ lower = <<"a", "n", "s">>
        THEN IF ~IsEmpty(c.previous) THEN [v |-> c.previous, ok |-> TRUE]
             ELSE [v |-> Empty, ok |-> FALSE]
        ELSE IF lower = <<"t", "o", "t", "a", "l">>
        THEN [v |-> calculateTotal(c), ok |-> TRUE]
        ELSE IF name \in DOMAIN c.variables THEN [v |-> c.variables[name], ok |-> TRUE]
        ELSE IF lower \in DOMAIN c.variables THEN [v |-> c.variables[lower], ok |-> TRUE]
        ELSE [v |-> Empty, ok |-> FALSE]

HasPrevious(c) == ~IsEmpty(c.previous) /\ ~IsError(c.previous)

evalIdentifier(c, id) ==
    LET g == GetVariable(c, id.Name)
    IN  IF g.ok THEN g.v
        ELSE IF c.strict THEN Error("undefined variable: %s")
        ELSE Number(Zero)

applyPercentageOp(op, left, right) ==
    IF op = "OpAdd" THEN WithAmount(left, RMul(AsFloat(left), RAdd(One, right.Num)))
    ELSE WithAmount(left, RMul(AsFloat(left), RSub(One, right.Num)))

\* The tail of coerceResult for + and -: operands of different typed kinds.
coerceDifferentKinds(c, result, left, right, op) ==
    LET viaUnits ==
            IF IsUnit(left) /\ IsUnit(right)
            THEN IF left.Unit # NoCode /\ right.Unit # NoCode
                    /\ ConvertTo(right.Unit, right.Num, left.Unit).ok
                 THEN LET conv == ConvertTo(right.Unit, right.Num, left.Unit).value
                      IN  IF op = "OpAdd" THEN WithAmount(left, RAdd(left.Num, conv))
                          ELSE WithAmount(left, RSub(left.Num, conv))
                 ELSE Error("incompatible units")
            ELSE Number(result)
    IN  IF IsCurrency(left) /\ IsCurrency(right) /\ left.Curr # NoCode /\ right.Curr # NoCode
        THEN {IF cv.ok
              THEN IF op = "OpAdd" THEN WithAmount(left, RAdd(left.Num, cv.value))
                   ELSE WithAmount(left, RSub(left.Num, cv.value))
              ELSE viaUnits
              : cv \in Convert(c.rates, right.Num, right.Curr, left.Curr)}
        ELSE {viaUnits}

coerceResult(c, result, left, right, op) ==
    IF op \in {"OpMul", "OpDiv"} /\ IsNumber(left) /\ ~IsNumber(right)
    THEN {WithAmount(right, result)}
    ELSE IF op \in {"OpMul", "OpDiv"} /\ IsNumber(right) /\ ~IsNumber(left)
    THEN {WithAmount(left, result)}
    ELSE IF op \in {"OpMul", "OpDiv"} /\ ~IsNumber(left) /\ ~IsNumber(right)
    THEN {Number(result)}
    ELSE IF op \in {"OpAdd", "OpSub"}
    THEN IF left.Kind = right.Kind THEN {WithAmount(left, result)}
         ELSE IF IsNumber(left) THEN {WithAmount(right, result)}
         ELSE IF IsNumber(right) THEN {WithAmount(left, result)}
         ELSE coerceDifferentKinds(c, result, left, right, op)
    ELSE {Number(result)}

\* applyBinaryOp testing the divisor for zero only when it is a plain Number.
applyBinaryOpChecksPlainZero(c, op, left, right) ==
    LET leftNum  == AsFloat(left)
        rightNum == AsFloat(right)
    IN  IF IsPercentage(right) /\ op \in {"OpAdd", "OpSub"}
        THEN {applyPercentageOp(op, left, right)}
        ELSE IF op = "OpAdd" THEN coerceResult(c, RAdd(leftNum, rightNum), left, right, op)
        ELSE IF op = "OpSub" THEN coerceResult(c, RSub(leftNum, rightNum), left, right, op)
        ELSE IF op = "OpMul" THEN coerceResult(c, RMul(leftNum, rightNum), left, right, op)
        ELSE IF op \in {"OpDiv", "OpMod"}
        THEN IF rightNum = Zero
             THEN IF IsNumber(right) THEN {Error("division by zero")}
                  ELSE coerceResult(c, Zero, left, right, op)
             ELSE coerceResult(c, RDiv(leftNum, rightNum), left, right, op)
        ELSE IF op = "OpPow" THEN coerceResult(c, RPow(leftNum, rightNum), left, right, op)
        ELSE {Error("unknown operator")}

applyBinaryOp(c, op, left, right) ==
    LET leftNum  == AsFloat(left)
        rightNum == AsFloat(right)
    IN  IF IsPercentage(right) /\ op \in {"OpAdd", "OpSub"}
        THEN {applyPercentageOp(op, left, right)}
        ELSE IF op = "OpAdd" THEN coerceResult(c, RAdd(leftNum, rightNum), left, right, op)
        ELSE IF op = "OpSub" THEN coerceResult(c, RSub(leftNum, rightNum), left, right, op)
        ELSE IF op = "OpMul" THEN coerceResult(c, RMul(leftNum, rightNum), left, right, op)
        ELSE IF op = "OpDiv"
        THEN IF rightNum = Zero THEN {Error("division by zero")}
             ELSE coerceResult(c, RDiv(leftNum, rightNum), left, right, op)
        ELSE IF op = "OpPow" THEN coerceResult(c, RPow(leftNum, rightNum), left, right, op)
        ELSE IF op = "OpMod"
        THEN IF rightNum = Zero THEN {Error("modulo by zero")}
             ELSE coerceResult(c, RMod(leftNum, rightNum), left, right, op)
        ELSE {Error("unknown operator")}

(***************************************************************************)
(* Built-in functions.  A function name is the lower-cased identifier.     *)
(***************************************************************************)
RECURSIVE sumArgs(_)
sumArgs(args) == IF args = <<>> THEN Zero ELSE RAdd(AsFloat(Head(args)), sumArgs(Tail(args)))

fnSum(args) == IF args = <<>> THEN Number(Zero) ELSE WithAmount(args[1], sumArgs(args))

fnAvg(args) ==
    IF args = <<>> THEN Number(Zero)
    ELSE WithAmount(fnSum(args), RDiv(AsFloat(fnSum(args)), <<Len(args), 1>>))

\* The loops of fnMin and fnMax: the first argument that beats all before it.
RECURSIVE pickArg(_, _, _)
pickArg(best, rest, wantLess) ==
    IF rest = <<>> THEN best
    ELSE IF wantLess /\ RLess(AsFloat(Head(rest)), AsFloat(best))
    THEN pickArg(Head(rest), Tail(rest), wantLess)
    ELSE IF ~wantLess /\ RLess(AsFloat(best), AsFloat(Head(rest)))
    THEN pickArg(Head(rest), Tail(rest), wantLess)
    ELSE pickArg(best, Tail(rest), wantLess)

fnMin(args) ==
    IF args = <<>> THEN Error("min requires at least one argument")
    ELSE pickArg(args[1], Tail(args), TRUE)

fnMax(args) ==
    IF args = <<>> THEN Error("max requires at least one argument")
    ELSE pickArg(args[1], Tail(args), FALSE)

\* The math functions whose value is rational; sqrt, the logarithms, exp and
\* the trigonometric functions have no value in the model.
applyMath(fn, x) ==
    CASE fn = "abs" -> RAbs(x)
      [] fn = "round" -> RRound(x)
      [] fn = "floor" -> RFloor(x)
      [] fn = "ceil" -> RCeil(x)

fnUnary(args, fn) ==
    IF Len(args) # 1 THEN Error("function requires exactly one argument")
    ELSE Number(applyMath(fn, AsFloat(args[1])))

fnPow(args) ==
    IF Len(args) # 2 THEN Error("pow requires exactly two arguments")
    ELSE IF AsFloat(args[1]) = Zero /\ AsFloat(args[2])[1] < 0 THEN Error("invalid result")
    ELSE Number(RPow(AsFloat(args[1]), AsFloat(args[2])))

IrrationalFns ==
    {<<"s", "q", "r", "t">>, <<"l", "o", "g">>, <<"l", "o", "g", "1", "0">>, <<"l", "n">>,
     <<"e", "x", "p">>, <<"s", "i", "n">>, <<"c", "o", "s">>, <<"t", "a", "n">>,
     <<"a", "s", "i", "n">>, <<"a", "c", "o", "s">>, <<"a", "t", "a", "n">>}

callFunction(name, args) ==
    IF name = <<"s", "u", "m">> THEN fnSum(args)
    ELSE IF name \in {<<"a", "v", "g">>, <<"a", "v", "e", "r", "a", "g", "e">>,
                      <<"m", "e", "a", "n">>} THEN fnAvg(args)
    ELSE IF name = <<"m", "i", "n">> THEN fnMin(args)
    ELSE IF name = <<"m", "a", "x">> THEN fnMax(args)
    ELSE IF name = <<"c", "o", "u", "n", "t">> THEN Number(<<Len(args), 1>>)
    ELSE IF name = <<"a", "b", "s">> THEN fnUnary(args, "abs")
    ELSE IF name = <<"r", "o", "u", "n", "d">> THEN fnUnary(args, "round")
    ELSE IF name = <<"f", "l", "o", "o", "r">> THEN fnUnary(args, "floor")
    ELSE IF name = <<"c", "e", "i", "l">> THEN fnUnary(args, "ceil")
    ELSE IF name \in IrrationalFns THEN fnUnary(args, "irrational")
    ELSE IF name = <<"p", "o", "w">> THEN fnPow(args)
    ELSE Error("unknown function: %s")

(***************************************************************************)
(* Expressions and statements.                                             *)
(***************************************************************************)
RECURSIVE evalExpr(_, _), evalArgs(_, _)

\* The argument loop of evalCall: [failed, err, vals].
evalArgs(c, args) ==
    IF args = <<>> THEN {[failed |-> FALSE, err |-> Empty, vals |-> <<>>]}
    ELSE UNION {
           IF IsError(v) THEN {[failed |-> TRUE, err |-> v, vals |-> <<>>]}
           ELSE {IF r.failed THEN r ELSE [r EXCEPT !.vals = <<v>> \o r.vals]
                 : r \in evalArgs(c, Tail(args))}
           : v \in evalExpr(c, Head(args))}

evalBinary(c, expr) ==
    UNION {IF IsError(left) THEN {left}
           ELSE UNION {IF IsError(right) THEN {right}
                       ELSE applyBinaryOp(c, expr.Op, left, right)
                       : right \in evalExpr(c, expr.Right)}
           : left \in evalExpr(c, expr.Left)}

evalUnary(c, expr) ==
    {IF IsError(value) THEN value
     ELSE IF expr.Op = "OpNeg" THEN Negate(value)
     ELSE IF expr.Op = "OpPos" THEN value
     ELSE Error("unknown unary operator")
     : value \in evalExpr(c, expr.Expr)}

evalPercentOf(c, expr) ==
    UNION {IF IsError(percent) THEN {percent}
           ELSE {IF IsError(value) THEN value
                 ELSE WithAmount(value,
                        RMul(AsFloat(value),
                             IF IsPercentage(percent) THEN percent.Num
                             ELSE RDiv(AsFloat(percent), <<100, 1>>)))
                 : value \in evalExpr(c, expr.Value)}
           : percent \in evalExpr(c, expr.Percent)}

evalConversion(c, expr) ==
    UNION {IF IsError(value) THEN {value} ELSE convertValue(c, value, expr.Target)
           : value \in evalExpr(c, expr.Value)}

evalContinuation(c, expr) ==
    IF ~HasPrevious(c) THEN evalExpr(c, expr.Expr)
    ELSE UNION {IF IsError(right) THEN {right}
                ELSE applyBinaryOp(c, expr.Op, c.previous, right)
                : right \in evalExpr(c, expr.Expr)}

evalConversionContinuation(c, expr) ==
    IF ~HasPrevious(c) THEN {Error("no previous value to convert")}
    ELSE convertValue(c, c.previous, expr.Target)

evalCall(c, expr) ==
    {IF r.failed THEN r.err ELSE callFunction(ToLowerStr(expr.Name), r.vals)
     : r \in evalArgs(c, expr.Args)}

evalExpr(c, ex) ==
    IF ex.kind = "nil" THEN {Empty}
    ELSE IF ex.kind = "NumberLit" THEN {Number(ex.Value)}
    ELSE IF ex.kind = "PercentLit" THEN {Percentage(ex.Value)}
    ELSE IF ex.kind = "CurrencyLit" THEN {CurrencyValue(ex.Amount, ex.Currency)}
    ELSE IF ex.kind = "UnitLit" THEN {UnitValue(ex.Amount, ex.Unit)}
    ELSE IF ex.kind = "MetalLit" THEN {MetalValue(ex.Amount, ex.Metal)}
    ELSE IF ex.kind = "CryptoLit" THEN {CryptoValue(ex.Amount, ex.Crypto)}
    ELSE IF ex.kind = "Identifier" THEN {evalIdentifier(c, ex)}
    ELSE IF ex.kind = "BinaryExpr" THEN evalBinary(c, ex)
    ELSE IF ex.kind = "UnaryExpr" THEN evalUnary(c, ex)
    ELSE IF ex.kind = "PercentOfExpr" THEN evalPercentOf(c, ex)
    ELSE IF ex.kind = "ConversionExpr" THEN evalConversion(c, ex)
    ELSE IF ex.kind = "CallExpr" THEN evalCall(c, ex)
    ELSE IF ex.kind = "GroupExpr" THEN evalExpr(c, ex.Expr)
    ELSE IF ex.kind = "ContinuationExpr" THEN evalContinuation(c, ex)
    ELSE IF ex.kind = "ConversionContinuation" THEN evalConversionContinuation(c, ex)
    ELSE {Error("unknown expression type")}

(***************************************************************************)
(* CONTEXT (internal/eval/context.go).  The variables map and the array    *)
(* behind the lines slice are objects on a heap, so that two contexts can  *)
(* hold the same object or copies of it:                                   *)
(*   h = [maps: id -> map, arrays: id -> sequence of LineResult]           *)
(*   c = [variables: map id, previous, lines: [arr, len], strict]          *)
(* arr = 0 is the nil slice.  append writes the element after the slice's  *)
(* length; whether it also moves the array is invisible while no other     *)
(* slice holds that array.                                                 *)
(***************************************************************************)
EmptyVars == [x \in {} |-> Empty]

NilSlice == [arr |-> 0, len |-> 0]

MaxOf(S) == CHOOSE x \in S : \A y \in S : y <= x

FreshId(f) == IF DOMAIN f = {} THEN 1 ELSE MaxOf(DOMAIN f) + 1

SliceElems(h, sl) == IF sl.arr = 0 THEN <<>> ELSE SubSeq(h.arrays[sl.arr], 1, sl.len)

LineResult(input, value, isContinuation, assignedVar) ==
    [Input |-> input, Value |-> value, IsConsumed |-> FALSE,
     IsContinuation |-> isContinuation, AssignedVar |-> assignedVar]

\* What the evaluator reads of a context, with the rate table it looks up.
View(h, c, rt) ==
    [variables |-> h.maps[c.variables], previous |-> c.previous,
     lines |-> SliceElems(h, c.lines), strict |-> c.strict, rates |-> rt]

IsSpecialName(name) ==
    ToLowerStr(name) \in {<<"_">>, <<"a", "n", "s">>, <<"t", "o", "t", "a", "l">>}

SetVariableLowercased(h, c, name, value) ==
    IF IsSpecialName(name) THEN h
    ELSE [h EXCEPT !.maps[c.variables] = Put(@, ToLowerStr(name), value)]

SetVariable(h, c, name, value) ==
    IF IsSpecialName(name) THEN h
    ELSE [h EXCEPT !.maps[c.variables] = Put(@, name, value)]

SetPrevious(c, v) == IF ~IsEmpty(v) /\ ~IsError(v) THEN [c EXCEPT !.previous = v] ELSE c

ValidLines(elems) ==
    {i \in 1..Len(elems) : ~IsEmpty(elems[i].Value) /\ ~IsError(elems[i].Value)}

MarkLastConsumedAnyLine(h, c) ==
    IF c.lines.len = 0 THEN h
    ELSE [h EXCEPT !.arrays[c.lines.arr][c.lines.len].IsConsumed = TRUE]

MarkLastConsumed(h, c) ==
    IF ValidLines(SliceElems(h, c.lines)) = {} THEN h
    ELSE [h EXCEPT !.arrays[c.lines.arr][MaxOf(ValidLines(SliceElems(h, c.lines)))].IsConsumed
                     = TRUE]

\* AddLineResult: [h, c].
AddLineResult(h, c, lr) ==
    IF c.lines.arr = 0
    THEN [h |-> [h EXCEPT !.arrays = h.arrays @@ (FreshId(h.arrays) :> <<lr>>)],
          c |-> [c EXCEPT !.lines = [arr |-> FreshId(h.arrays), len |-> 1]]]
    ELSE [h |-> [h EXCEPT !.arrays[c.lines.arr] = Append(SliceElems(h, c.lines), lr)],
          c |-> [c EXCEPT !.lines.len = c.lines.len + 1]]

\* Context.Clear leaving the previous result in place.
ContextClearKeepsPrevious(h, c) ==
    [h |-> [h EXCEPT !.maps = h.maps @@ (FreshId(h.maps) :> EmptyVars)],
     c |-> [c EXCEPT !.variables = FreshId(h.maps), !.lines = NilSlice]]

\* Context.Clear: [h, c].
ContextClear(h, c) ==
    [h |-> [h EXCEPT !.maps = h.maps @@ (FreshId(h.maps) :> EmptyVars)],
     c |-> [c EXCEPT !.variables = FreshId(h.maps), !.previous = Empty, !.lines = NilSlice]]

CloneSharingState(h, c) == [h |-> h, c |-> c]

\* Context.Clone: a new map and a new array holding copies; [h, c].
Clone(h, c) ==
    [h |-> [maps |-> h.maps @@ (FreshId(h.maps) :> h.maps[c.variables]),
            arrays |-> h.arrays @@ (FreshId(h.arrays) :> SliceElems(h, c.lines))],
     c |-> [c EXCEPT !.variables = FreshId(h.maps),
                     !.lines = [arr |-> FreshId(h.arrays), len |-> c.lines.len]]]

\* The heap without the objects context c cannot reach, its objects renamed
\* to 1: [h, c].
Collect(h, c) ==
    [h |-> [maps |-> (1 :> h.maps[c.variables]),
            arrays |-> IF c.lines.arr = 0 THEN <<>>
                       ELSE (1 :> h.arrays[c.lines.arr])],
     c |-> [c EXCEPT !.variables = 1,
                     !.lines.arr = IF c.lines.arr = 0 THEN 0 ELSE 1]]

\* evalStmt with evalAssign: the set of [h, value].
evalStmt(h, c, rt, stmt) ==
    IF stmt.kind \in {"EmptyStmt", "CommentStmt"} THEN {[h |-> h, value |-> Empty]}
    ELSE IF stmt.kind = "ExprStmt"
    THEN {[h |-> h, value |-> v] : v \in evalExpr(View(h, c, rt), stmt.Expr)}
    ELSE IF stmt.kind = "AssignStmt"
    THEN {[h |-> IF IsError(v) THEN h ELSE SetVariable(h, c, stmt.Name, v), value |-> v]
          : v \in evalExpr(View(h, c, rt), stmt.Expr)}
    ELSE {[h |-> h, value |-> Error("unknown statement type")]}

IsContinuationStmt(stmt) ==
    stmt.kind = "ExprStmt"
        /\ stmt.Expr.kind \in {"ContinuationExpr", "ConversionContinuation"}

\* Evaluator.EvalLine on context c: the set of [h, c, value].
EvalLine(h, c, rt, line, raw) ==
    {LET lr     == LineResult(raw, r.value, IsContinuationStmt(line.Stmt),
                              IF line.Stmt.kind = "AssignStmt" THEN line.Stmt.Name ELSE <<>>)
         marked == IF IsContinuationStmt(line.Stmt) THEN MarkLastConsumed(r.h, c) ELSE r.h
         added  == AddLineResult(marked, c, lr)
     IN  [h |-> added.h, c |-> SetPrevious(added.c, r.value), value |-> r.value]
     : r \in evalStmt(h, c, rt, line.Stmt)}

(***************************************************************************)
(* Context.GroupedTotals.                                                  *)
(***************************************************************************)
MapAdd(m, k, x) == Put(m, k, RAdd(IF k \in DOMAIN m THEN m[k] ELSE Zero, x))

NoTotals ==
    [currencyTotals |-> EmptyMap, unitTotals |-> EmptyMap, lastCurrency |-> NoCode,
     lastUnits |-> EmptyMap, plainTotal |-> Zero]

\* One pass of the loop over c.lines: the accumulators it can leave.
groupLine(rt, acc, lr) ==
    IF lr.IsConsumed \/ IsEmpty(lr.Value) \/ IsError(lr.Value) THEN {acc}
    ELSE IF lr.Value.Kind = "Currency" /\ lr.Value.Curr # NoCode
    THEN {[acc EXCEPT !.currencyTotals =
                          IF cv.ok THEN MapAdd(@, "USD", cv.value)
                          ELSE MapAdd(@, lr.Value.Curr, lr.Value.Num),
                      !.lastCurrency = lr.Value.Curr]
          : cv \in Convert(rt, lr.Value.Num, lr.Value.Curr, "USD")}
    ELSE IF lr.Value.Kind = "Crypto" /\ lr.Value.Crypto # NoCode
    THEN {IF cv.ok THEN [acc EXCEPT !.currencyTotals = MapAdd(@, "USD", cv.value)] ELSE acc
          : cv \in Convert(rt, lr.Value.Num, lr.Value.Crypto, "USD")}
    ELSE IF lr.Value.Kind = "WithUnit" /\ lr.Value.Unit # NoCode
    THEN {[acc EXCEPT !.unitTotals = MapAdd(@, UnitTypeOf(lr.Value.Unit),
                                            RMul(lr.Value.Num, ToBase(lr.Value.Unit))),
                      !.lastUnits = Put(@, UnitTypeOf(lr.Value.Unit), lr.Value.Unit)]}
    ELSE IF lr.Value.Kind = "Number"
    THEN {[acc EXCEPT !.plainTotal = RAdd(@, lr.Value.Num)]}
    ELSE {acc}

RECURSIVE groupLines(_, _, _)
groupLines(rt, accs, lines) ==
    IF lines = <<>> THEN accs
    ELSE groupLines(rt, UNION {groupLine(rt, acc, Head(lines)) : acc \in accs}, Tail(lines))

currencyResults(rt, acc) ==
    LET usdTotal == IF "USD" \in DOMAIN acc.currencyTotals THEN acc.currencyTotals["USD"]
                    ELSE Zero
    IN  IF DOMAIN acc.currencyTotals = {} THEN {<<>>}
        ELSE IF acc.lastCurrency # NoCode /\ acc.lastCurrency # "USD"
        THEN {IF cv.ok THEN <<CurrencyValue(cv.value, acc.lastCurrency)>>
              ELSE <<CurrencyValue(usdTotal, "USD")>>
              : cv \in Convert(rt, usdTotal, "USD", acc.lastCurrency)}
        ELSE {<<CurrencyValue(usdTotal, "USD")>>}

\* `for unitType, baseTotal := range unitTotals`: in any order.
unitResults(acc) ==
    {[i \in 1..Len(order) |->
        UnitValue(RDiv(acc.unitTotals[order[i]], ToBase(acc.lastUnits[order[i]])),
                  acc.lastUnits[order[i]])]
     : order \in Perms(DOMAIN acc.unitTotals)}

plainResults(acc) == IF acc.plainTotal # Zero THEN <<Number(acc.plainTotal)>> ELSE <<>>

\* The slices GroupedTotals can return.
GroupedTotals(c) ==
    UNION {{cr \o ur \o plainResults(acc)
            : cr \in currencyResults(c.rates, acc), ur \in unitResults(acc)}
           : acc \in groupLines(c.rates, {NoTotals}, c.lines)}

(***************************************************************************)
(* The lexer as a state machine: lexer.New(input), then NextToken until    *)
(* it has returned EOF.                                                    *)
(***************************************************************************)
MaxLen == 4

LexAlphabet == {"1", "-", "+", " ", "a", "(", ")", ",", "."}

RECURSIVE SeqsUpTo(_, _)
SeqsUpTo(S, n) ==
    IF n = 0 THEN {<<>>}
    ELSE LET shorter == SeqsUpTo(S, n - 1)
         IN  shorter \cup {Append(q, c) : q \in {x \in shorter : Len(x) = n - 1}, c \in S}

LexInputs == SeqsUpTo(LexAlphabet, MaxLen)

LexInit ==
    /\ lex \in {NewLexer(i) : i \in LexInputs}
    /\ tokens = <<>>
    /\ rates = EmptyMap
    /\ CacheStart
    /\ ParseIdle
    /\ EngineIdle
    /\ ConcIdle
    /\ KeysIdle
    /\ ClientIdle

LexNextToken ==
    /\ IF tokens = <<>> THEN TRUE ELSE tokens[Len(tokens)].type # "EOF"
    /\ LET nt == NextToken(lex)
       IN  /\ lex' = nt.l
           /\ tokens' = Append(tokens, nt.tok)
    /\ UNCHANGED outsideLex

LexNext == LexNextToken

SpecLex == LexInit /\ [][LexNext]_vars

(***************************************************************************)
(* The lexer on lines of words: a first word, whitespace, a second word    *)
(* and what follows it.                                                    *)
(***************************************************************************)
FirstWords ==
    {<<"u", "s">>, <<"h", "o", "n", "g">>, <<"t", "u", "r", "k", "i", "s", "h">>,
     <<"s", "q", "u", "a", "r", "e">>, <<"T", "u", "r", "k", "i", "s", "h">>, <<"a">>}

SecondWords ==
    {<<"d", "o", "l", "l", "a", "r">>, <<"d", "o", "l", "l", "a", "r", "s">>,
     <<"k", "o", "n", "g">>, <<"l", "i", "r", "a">>, <<"L", "i", "r", "a">>,
     <<"m", "e", "t", "e", "r">>, <<"f", "e", "e", "t">>, <<"a">>, <<"1">>, <<"+">>}

WordGaps == {<<" ">>, <<" ", " ">>}

WordTails == {<<>>, <<" ", "d", "o", "l", "l", "a", "r">>, <<" ", "1">>}

WordCases ==
    [first : FirstWords, gap : WordGaps, second : SecondWords, tail : WordTails]
      \cup [first : FirstWords, gap : {<<>>}, second : {<<>>}, tail : {<<>>}]

WordInput(c) == c.first \o c.gap \o c.second \o c.tail

WordsInit ==
    /\ lex \in {NewLexer(WordInput(c)) : c \in WordCases}
    /\ tokens = <<>>
    /\ rates = EmptyMap
    /\ CacheStart
    /\ ParseIdle
    /\ EngineIdle
    /\ ConcIdle
    /\ KeysIdle
    /\ ClientIdle

WordsNext == LexNextToken

SpecWords == WordsInit /\ [][WordsNext]_vars

(***************************************************************************)
(* The parser as a state machine: parser.New(input), then ParseLine.       *)
(* The inputs are lexemes joined by single spaces: every chain of operands *)
(* and binary operators with or without a conversion suffix, and every     *)
(* short sequence of lexemes.                                              *)
(***************************************************************************)
MaxOperands == 3

MaxLexemes == 3

RECURSIVE JoinLexemes(_)
JoinLexemes(ws) ==
    IF ws = <<>> THEN <<>>
    ELSE IF Len(ws) = 1 THEN ws[1]
    ELSE ws[1] \o <<" ">> \o JoinLexemes(Tail(ws))

OperandLexemes == {<<"a">>, <<"2">>}

OperatorLexemes == {<<"+">>, <<"-">>, <<"*">>, <<"/">>, <<"^">>}

RECURSIVE ChainsOf(_)
ChainsOf(n) ==
    IF n = 1 THEN {<<x>> : x \in OperandLexemes}
    ELSE {c \o <<o, x>> : c \in ChainsOf(n - 1), o \in OperatorLexemes, x \in OperandLexemes}

ChainInputs == UNION {{JoinLexemes(c) : c \in ChainsOf(n)} : n \in 1..MaxOperands}

SuffixIn == <<" ", "i", "n", " ", "E", "U", "R">>

SuffixTo == <<" ", "t", "o", " ", "E", "U", "R">>

ParseLexemes ==
    {<<"a">>, <<"2">>, <<"+">>, <<"*">>, <<"(">>, <<")">>, <<"=">>, <<",">>,
     <<"i", "n">>, <<"E", "U", "R">>, <<"5", "%">>, <<"o", "f">>, <<"$">>, <<"@">>}

ParseInputs ==
    ChainInputs
        \cup {c \o SuffixIn : c \in ChainInputs}
        \cup {c \o SuffixTo : c \in ChainInputs}
        \cup {JoinLexemes(ws) : ws \in SeqsUpTo(ParseLexemes, MaxLexemes)}

ParseInit ==
    /\ parser \in {NewParser(i) : i \in ParseInputs}
    /\ parsed = [done |-> FALSE]
    /\ rates = EmptyMap
    /\ CacheStart
    /\ LexIdle
    /\ EngineIdle
    /\ ConcIdle
    /\ KeysIdle
    /\ ClientIdle

ParserParse ==
    /\ ~parsed.done
    /\ LET r == ParserParseLine(parser)
       IN  /\ parser' = r.p
           /\ parsed' = [done |-> TRUE, line |-> r.e]
    /\ UNCHANGED outsideParse

ParseNext == ParserParse

SpecParse == ParseInit /\ [][ParseNext]_vars

(***************************************************************************)
(* ENGINE (pkg/engine/engine.go): one engine, its context and its rate     *)
(* cache, driven by a bounded number of calls.  The adapter the engine     *)
(* hands to a context forwards every lookup to the engine's rate cache.    *)
(***************************************************************************)
MaxSteps == 3

WhiteSpace == {" ", "\t", "\n", "\r"}

RECURSIVE TrimLeft(_)
TrimLeft(str) ==
    IF str # <<>> /\ Head(str) \in WhiteSpace THEN TrimLeft(Tail(str)) ELSE str

RECURSIVE TrimRight(_)
TrimRight(str) ==
    IF str # <<>> /\ str[Len(str)] \in WhiteSpace
    THEN TrimRight(SubSeq(str, 1, Len(str) - 1)) ELSE str

TrimSpace(str) == TrimRight(TrimLeft(str))

HasPrefix(str, prefix) ==
    Len(str) >= Len(prefix) /\ SubSeq(str, 1, Len(prefix)) = prefix

\* The lines typed into the engine.
In100 == <<"1", "0", "0">>

InPlus50 == <<"+", " ", "5", "0">>

InAssign == <<"x", " ", "=", " ", "5">>

InDivZero == <<"1", " ", "/", " ", "0">>

InUsdPlusEur == <<"1", "0", " ", "U", "S", "D", " ", "+", " ", "5", " ", "E", "U", "R">>

InSymbols == <<"$", "1", "0", " ", "+", " ", "E2", "82", "AC", "5">>

In5Eur == <<"5", " ", "E", "U", "R">>

In1Btc == <<"1", " ", "B", "T", "C">>

InToUsd == <<"i", "n", " ", "U", "S", "D">>

EvalInputs ==
    {In100, InPlus50, InAssign, InDivZero, InUsdPlusEur, InSymbols, In5Eur, In1Btc, InToUsd}

RateEurUsd == <<11, 10>>

\* Eval and EvalPreview after the blank-line test: the set of [h, c, value]
\* of evaluating input on context c.
parseAndEval(h, c, rt, input) ==
    With(ParseLine(input), LAMBDA pl :
      IF pl.errs # <<>> THEN {[h |-> h, c |-> c, value |-> Error(pl.errs[1].msg)]}
      ELSE EvalLine(h, c, rt, pl.line, input))

IsCommentLine(trimmed) == HasPrefix(trimmed, <<"#">>) \/ HasPrefix(trimmed, <<"/", "/">>)

\* Engine.Eval handing comment lines to the parser.
EngineEvalOutcomesParsingComments(h, c, rt, input) ==
    IF TrimSpace(input) = <<>>
    THEN {[h |-> h, c |-> c, value |-> Empty]}
    ELSE parseAndEval(h, c, rt, input)

EngineEvalOutcomes(h, c, rt, input) ==
    IF TrimSpace(input) = <<>> \/ IsCommentLine(TrimSpace(input))
    THEN {[h |-> h, c |-> c, value |-> Empty]}
    ELSE parseAndEval(h, c, rt, input)

EngineEvalPreviewOutcomes(h, c, rt, input) ==
    LET cl == Clone(h, c)
    IN  IF TrimSpace(input) = <<>> THEN {[h |-> cl.h, c |-> cl.c, value |-> Empty]}
        ELSE parseAndEval(cl.h, cl.c, rt, input)

Returned(op, input, values) == [op |-> op, input |-> input, values |-> values]

EngineEval(input) ==
    /\ steps < MaxSteps
    /\ \E o \in EngineEvalOutcomes(heap, ctx, rates, input) :
         /\ heap' = Collect(o.h, o.c).h
         /\ ctx' = Collect(o.h, o.c).c
         /\ lastCall' = Returned("Eval", input, <<o.value>>)
    /\ steps' = steps + 1
    /\ UNCHANGED <<rates, outsideEngine>>

\* The clone is dropped when EvalPreview returns; the engine keeps its context.
EngineEvalPreview(input) ==
    /\ steps < MaxSteps
    /\ \E o \in EngineEvalPreviewOutcomes(heap, ctx, rates, input) :
         /\ heap' = Collect(o.h, ctx).h
         /\ ctx' = Collect(o.h, ctx).c
         /\ lastCall' = Returned("EvalPreview", input, <<o.value>>)
    /\ steps' = steps + 1
    /\ UNCHANGED <<rates, outsideEngine>>

EngineClear ==
    /\ steps < MaxSteps
    /\ heap' = Collect(ContextClear(heap, ctx).h, ContextClear(heap, ctx).c).h
    /\ ctx' = Collect(ContextClear(heap, ctx).h, ContextClear(heap, ctx).c).c
    /\ lastCall' = Returned("Clear", <<>>, <<>>)
    /\ steps' = steps + 1
    /\ UNCHANGED <<rates, outsideEngine>>

EngineSetRate(from, to, rate) ==
    /\ steps < MaxSteps
    /\ rates' = SetRateTable(rates, from, to, rate)
    /\ lastCall' = Returned("SetRate", <<>>, <<>>)
    /\ steps' = steps + 1
    /\ UNCHANGED <<ctx, heap, outsideEngine>>

EngineTotal ==
    /\ steps < MaxSteps
    /\ lastCall' = Returned("Total", <<>>, <<calculateTotal(View(heap, ctx, rates))>>)
    /\ steps' = steps + 1
    /\ UNCHANGED <<ctx, heap, rates, outsideEngine>>

EngineGroupedTotals ==
    /\ steps < MaxSteps
    /\ \E vs \in GroupedTotals(View(heap, ctx, rates)) :
         lastCall' = Returned("GroupedTotals", <<>>, vs)
    /\ steps' = steps + 1
    /\ UNCHANGED <<ctx, heap, rates, outsideEngine>>

\* engine.New(), or engine.NewWithCache of a cache that was cleared.
EvalInit ==
    /\ rates \in {loadDefaults, EmptyMap}
    /\ CacheStart
    /\ LexIdle
    /\ ParseIdle
    /\ EngineIdle
    /\ ConcIdle
    /\ KeysIdle
    /\ ClientIdle

EvalNext ==
    \/ \E input \in EvalInputs : EngineEval(input)
    \/ \E input \in EvalInputs : EngineEvalPreview(input)
    \/ EngineClear
    \/ EngineSetRate("EUR", "USD", RateEurUsd)
    \/ EngineTotal
    \/ EngineGroupedTotals

SpecEval == EvalInit /\ [][EvalNext]_vars

(***************************************************************************)
(* The engine on lines that assign and read variables.                     *)
(***************************************************************************)
InAssignDivZero == <<"x", " ", "=", " ", "1", " ", "/", " ", "0">>

InAssignTotal == <<"t", "o", "t", "a", "l", " ", "=", " ", "5">>

InAssignTax == <<"T", "a", "x", " ", "=", " ", "5">>

InAssignRate == <<"r", "a", "t", "e", " ", "=", " ", "7">>

InTaxLower == <<"t", "a", "x">>

InTaxUpper == <<"T", "A", "X">>

InRateUpper == <<"R", "A", "T", "E">>

VarInputs ==
    {In100, InAssign, InAssignDivZero, InAssignTotal, InAssignTax, InAssignRate,
     InTaxLower, InTaxUpper, InRateUpper}

VarNext ==
    \/ \E input \in VarInputs : EngineEval(input)
    \/ EngineClear

SpecVars == EvalInit /\ [][VarNext]_vars

(***************************************************************************)
(* The engine on lines of arithmetic over units and on divisions.          *)
(***************************************************************************)
InKmPlusM == <<"1", " ", "k", "m", " ", "+", " ", "5", "0", "0", " ", "m">>

InKmMinusM == <<"2", " ", "k", "m", " ", "-", " ", "5", "0", "0", " ", "m">>

InKmPlusKg == <<"5", " ", "k", "m", " ", "+", " ", "2", " ", "k", "g">>

InUsdDivZero == <<"1", "0", " ", "U", "S", "D", " ", "/", " ", "0">>

InBtcDivZero == <<"1", " ", "B", "T", "C", " ", "/", " ", "0">>

InKmDivZeroKm == <<"5", " ", "k", "m", " ", "/", " ", "0", " ", "k", "m">>

InDivZeroPercent == <<"1", " ", "/", " ", "0", "%">>

InDivUnbound == <<"1", " ", "/", " ", "y">>

InContDivZero == <<"/", " ", "0">>

InContDivUnbound == <<"/", " ", "y">>

In50Percent == <<"5", "0", "%">>

ArithInputs ==
    {In100, In5Eur, In50Percent, InKmPlusM, InKmMinusM, InKmPlusKg,
     InDivZero, InUsdDivZero, InBtcDivZero, InKmDivZeroKm, InDivZeroPercent, InDivUnbound,
     InContDivZero, InContDivUnbound}

ArithNext ==
    \/ \E input \in ArithInputs : EngineEval(input)
    \/ EngineClear

SpecArith == EvalInit /\ [][ArithNext]_vars

(***************************************************************************)
(* The engine on calls of the aggregation functions.                       *)
(***************************************************************************)
CallOf(fn, a, b) == fn \o <<"(">> \o a \o <<",", " ">> \o b \o <<")">>

Arg10Usd == <<"1", "0", " ", "U", "S", "D">>

Arg5 == <<"5">>

Arg10Km == <<"1", "0", " ", "k", "m">>

FnNames == {<<"s", "u", "m">>, <<"a", "v", "g">>, <<"m", "i", "n">>, <<"m", "a", "x">>}

CallArgs == {<<Arg10Usd, In5Eur>>, <<In5Eur, Arg10Usd>>, <<Arg5, Arg10Km>>}

CallInputs == {CallOf(fn, ab[1], ab[2]) : fn \in FnNames, ab \in CallArgs}

CallNext ==
    \/ \E input \in CallInputs : EngineEval(input)
    \/ EngineClear

SpecCalls == EvalInit /\ [][CallNext]_vars

(***************************************************************************)
(* The engine on sums and differences of operands of different kinds.      *)
(***************************************************************************)
MixOf(a, sign, b) == a \o <<" ", sign, " ">> \o b

MixSigns == {"+", "-"}

MixArgs ==
    {<<Arg10Usd, Arg10Km>>, <<Arg10Km, Arg10Usd>>, <<Arg5, Arg10Usd>>, <<Arg10Usd, Arg5>>,
     <<Arg5, Arg10Km>>, <<Arg10Km, Arg5>>}

MixInputs == {MixOf(ab[1], sign, ab[2]) : sign \in MixSigns, ab \in MixArgs}

MixNext ==
    \/ \E input \in MixInputs : EngineEval(input)
    \/ EngineClear

SpecMix == EvalInit /\ [][MixNext]_vars

(***************************************************************************)
(* The engine on lines with two binary operators and on lines with a       *)
(* unary sign.                                                             *)
(***************************************************************************)
MaxPrecLines == 2

PrecSigns == {"+", "-", "*", "/", "^"}

PrecOf(s1, s2) == <<"2", " ", s1, " ", "3", " ", s2, " ", "2">>

InNegPow == <<"-", "2", " ", "^", " ", "2">>

InParenNegPow == <<"(", "-", " ", "2", " ", "^", " ", "2", ")">>

InMulNegAdd == <<"2", " ", "*", " ", "-", " ", "3", " ", "+", " ", "1">>

InMulPosAdd == <<"2", " ", "*", " ", "+", " ", "3", " ", "+", " ", "1">>

InPowNegMul == <<"2", " ", "^", " ", "-", " ", "1", " ", "*", " ", "2">>

UnaryInputs == {InNegPow, InParenNegPow, InMulNegAdd, InMulPosAdd, InPowNegMul}

PrecInputs == {PrecOf(s1, s2) : s1 \in PrecSigns, s2 \in PrecSigns} \cup UnaryInputs

PrecNext ==
    \/ \E input \in PrecInputs : steps < MaxPrecLines /\ EngineEval(input)
    \/ EngineClear

SpecPrec == EvalInit /\ [][PrecNext]_vars

(***************************************************************************)
(* The engine on blank lines, comment lines and lines the parser rejects.  *)
(***************************************************************************)
InBlank == <<>>

InSpaces == <<" ", " ">>

InHash == <<"#", " ", "c">>

InSlashes == <<" ", "/", "/", "c">>

InDangling == <<"2", " ", "+">>

InUnclosed == <<"(", "2">>

InNoValue == <<"x", " ", "=">>

BlankInputs == {InBlank, InSpaces}

CommentInputs == {InHash, InSlashes}

RejectedInputs == {InDangling, InUnclosed, InNoValue}

SkipInputs == {In100, InAssign, InPlus50} \cup BlankInputs \cup CommentInputs \cup RejectedInputs

SkipNext ==
    \/ \E input \in SkipInputs : EngineEval(input)
    \/ EngineClear

SpecSkip == EvalInit /\ [][SkipNext]_vars

(***************************************************************************)
(* CONCURRENCY.  Goroutines call the operations of one RateCache           *)
(* (internal/cache/cache.go) and one Context (internal/eval/context.go).   *)
(* An operation is the sequence of its lock operations, its accesses to    *)
(* the fields of the object and its calls into the os package; a goroutine *)
(* takes one of them per step.                                             *)
(***************************************************************************)
MaxCalls == 3

Lock(obj) == [k |-> "Lock", obj |-> obj, eff |-> ""]

Unlock(obj) == [k |-> "Unlock", obj |-> obj, eff |-> ""]

RLock(obj) == [k |-> "RLock", obj |-> obj, eff |-> ""]

RUnlock(obj) == [k |-> "RUnlock", obj |-> obj, eff |-> ""]

IO(call) == [k |-> "IO", obj |-> "", eff |-> call]

Read(obj, eff) == [k |-> "Read", obj |-> obj, eff |-> eff]

Write(obj, eff) == [k |-> "Write", obj |-> obj, eff |-> eff]

cacheSetRate == <<Lock("cache"), Write("cache", "SetRate"), Unlock("cache")>>

cacheGetRate == <<RLock("cache"), Read("cache", "GetRate"), RUnlock("cache")>>

cacheClear == <<Lock("cache"), Write("cache", "Clear"), Unlock("cache")>>

cacheApplyRawRates(eff) == <<Lock("cache"), Write("cache", eff), Unlock("cache")>>

cacheLoadFromFile ==
    <<IO("os.ReadFile")>> \o cacheApplyRawRates("ApplyCached")
        \o <<Lock("cache"), Write("cache", "lastUpdate"), Unlock("cache")>>

cacheSaveToFile ==
    <<IO("os.MkdirAll"), RLock("cache"), Read("cache", "CachedRates"), RUnlock("cache"),
      IO("os.WriteFile")>>

cacheStats == <<RLock("cache"), IO("os.Stat"), Read("cache", "Stats"), RUnlock("cache")>>

cacheConvert == cacheGetRate

contextSetRateCache ==
    <<Lock("context"), Write("context", "SetRateCache"), Unlock("context")>>

contextRateCache == <<Read("context", "rateCache")>>

contextGetRate == <<Read("context", "rateCache")>> \o cacheGetRate

contextSetRate ==
    <<Read("context", "rateCache"), Write("context", "cache.New")>> \o cacheSetRate

contextConvert == <<Read("context", "rateCache")>> \o cacheConvert

Operations ==
    [SetRate             |-> cacheSetRate,
     GetRate             |-> cacheGetRate,
     Clear               |-> cacheClear,
     ApplyRawRates       |-> cacheApplyRawRates("ApplyRawRates"),
     LoadFromFile        |-> cacheLoadFromFile,
     SaveToFile          |-> cacheSaveToFile,
     Stats               |-> cacheStats,
     ContextSetRateCache |-> contextSetRateCache,
     ContextRateCache    |-> contextRateCache,
     ContextGetRate      |-> contextGetRate,
     ContextSetRate      |-> contextSetRate,
     ContextConvert      |-> contextConvert]

Running(t) == frame[t].op # ""

Instr(t) == Operations[frame[t].op][frame[t].i]

At(t, k) == Running(t) /\ Instr(t).k = k

Holds(t, obj) == mu[obj].writer = t \/ t \in mu[obj].readers

Returned0 == [op |-> "", i |-> 0, released |-> {}]

\* The goroutine after its instruction: at the next one, or returned.
Advance(t, skip) ==
    IF frame[t].i + skip > Len(Operations[frame[t].op]) THEN [frame EXCEPT ![t] = Returned0]
    ELSE [frame EXCEPT ![t].i = @ + skip]

\* The rates a fetch delivers to ApplyRawRates.
FetchedRates == ("EUR" :> <<9, 10>>)

ConcCall(t, op) ==
    /\ ~Running(t)
    /\ calls < MaxCalls
    /\ calls' = calls + 1
    /\ frame' = [frame EXCEPT ![t] = [op |-> op, i |-> 1, released |-> {}]]
    /\ UNCHANGED <<rates, rawRates, lastUpdate, now, fileCache, mu, local, rateCache,
                   outsideConc>>

ConcLock(t) ==
    /\ At(t, "Lock")
    /\ mu[Instr(t).obj].writer = 0 /\ mu[Instr(t).obj].readers = {}
    /\ mu' = [mu EXCEPT ![Instr(t).obj].writer = t]
    /\ frame' = Advance(t, 1)
    /\ UNCHANGED <<rates, rawRates, lastUpdate, now, fileCache, local, rateCache, calls,
                   outsideConc>>

ConcRLock(t) ==
    /\ At(t, "RLock")
    /\ mu[Instr(t).obj].writer = 0
    /\ mu' = [mu EXCEPT ![Instr(t).obj].readers = @ \cup {t}]
    /\ frame' = Advance(t, 1)
    /\ UNCHANGED <<rates, rawRates, lastUpdate, now, fileCache, local, rateCache, calls,
                   outsideConc>>

ConcUnlock(t) ==
    /\ At(t, "Unlock")
    /\ mu' = [mu EXCEPT ![Instr(t).obj].writer = 0]
    /\ frame' = [Advance(t, 1) EXCEPT ![t].released =
                 IF Advance(t, 1)[t].op = "" THEN {} ELSE @ \cup {Instr(t).obj}]
    /\ UNCHANGED <<rates, rawRates, lastUpdate, now, fileCache, local, rateCache, calls,
                   outsideConc>>

ConcRUnlock(t) ==
    /\ At(t, "RUnlock")
    /\ mu' = [mu EXCEPT ![Instr(t).obj].readers = @ \ {t}]
    /\ frame' = [Advance(t, 1) EXCEPT ![t].released =
                 IF Advance(t, 1)[t].op = "" THEN {} ELSE @ \cup {Instr(t).obj}]
    /\ UNCHANGED <<rates, rawRates, lastUpdate, now, fileCache, local, rateCache, calls,
                   outsideConc>>

\* os.ReadFile with the expiry test, os.WriteFile, os.MkdirAll, os.Stat.
ConcIO(t) ==
    /\ At(t, "IO")
    /\ IF Instr(t).eff = "os.ReadFile"
       THEN /\ local' = [local EXCEPT ![t] = fileCache]
            /\ frame' = IF ~fileCache.exists \/ now - fileCache.timestamp > ttl
                     THEN [frame EXCEPT ![t] = Returned0] ELSE Advance(t, 1)
            /\ UNCHANGED fileCache
       ELSE IF Instr(t).eff = "os.WriteFile"
       THEN /\ fileCache' = local[t]
            /\ frame' = Advance(t, 1)
            /\ UNCHANGED local
       ELSE /\ frame' = Advance(t, 1)
            /\ UNCHANGED <<fileCache, local>>
    /\ UNCHANGED <<rates, rawRates, lastUpdate, now, mu, rateCache, calls, outsideConc>>

\* A read of the object's fields; a nil c.rateCache ends GetRate and Convert
\* and sends SetRate to cache.New().
ConcRead(t) ==
    /\ At(t, "Read")
    /\ local' = IF Instr(t).eff = "CachedRates"
                THEN [local EXCEPT ![t] = [exists |-> TRUE, timestamp |-> lastUpdate,
                                           rates |-> rawRates]]
                ELSE local
    /\ frame' = IF Instr(t).eff # "rateCache" THEN Advance(t, 1)
             ELSE IF frame[t].op = "ContextSetRate"
             THEN Advance(t, IF rateCache = "nil" THEN 1 ELSE 2)
             ELSE IF rateCache = "nil" THEN [frame EXCEPT ![t] = Returned0]
             ELSE Advance(t, 1)
    /\ UNCHANGED <<rates, rawRates, lastUpdate, now, fileCache, mu, rateCache, calls,
                   outsideConc>>

ConcWrite(t) ==
    /\ At(t, "Write")
    /\ frame' = Advance(t, 1)
    /\ CASE Instr(t).eff = "SetRate" ->
              /\ rates' = SetRateTable(rates, "EUR", "USD", <<11, 10>>)
              /\ UNCHANGED <<rawRates, lastUpdate, rateCache>>
         [] Instr(t).eff = "Clear" ->
              /\ rates' = EmptyMap /\ rawRates' = EmptyMap /\ lastUpdate' = ZeroTime
              /\ UNCHANGED rateCache
         [] Instr(t).eff = "ApplyRawRates" ->
              /\ rawRates' = FetchedRates
              /\ rates' = ApplyRawRatesTable(rates, FetchedRates)
              /\ lastUpdate' = now
              /\ UNCHANGED rateCache
         [] Instr(t).eff = "ApplyCached" ->
              /\ rawRates' = local[t].rates
              /\ rates' = ApplyRawRatesTable(rates, local[t].rates)
              /\ lastUpdate' = now
              /\ UNCHANGED rateCache
         [] Instr(t).eff = "lastUpdate" ->
              /\ lastUpdate' = local[t].timestamp
              /\ UNCHANGED <<rates, rawRates, rateCache>>
         [] Instr(t).eff = "SetRateCache" ->
              /\ rateCache' \in {"nil", "rc"}
              /\ UNCHANGED <<rates, rawRates, lastUpdate>>
         [] Instr(t).eff = "cache.New" ->
              /\ rateCache' = "rc"
              /\ UNCHANGED <<rates, rawRates, lastUpdate>>
    /\ UNCHANGED <<now, fileCache, mu, local, calls, outsideConc>>

ConcTick ==
    /\ now < MaxTime
    /\ now' = now + 1
    /\ UNCHANGED <<rates, rawRates, lastUpdate, fileCache, concVars, outsideConc>>

ConcInit ==
    /\ rates = loadDefaults
    /\ CacheStart
    /\ LexIdle
    /\ ParseIdle
    /\ EngineIdle
    /\ ConcIdle
    /\ KeysIdle
    /\ ClientIdle

ConcNext ==
    \/ \E t \in Goroutines : \E op \in DOMAIN Operations : ConcCall(t, op)
    \/ \E t \in Goroutines : ConcLock(t)
    \/ \E t \in Goroutines : ConcRLock(t)
    \/ \E t \in Goroutines : ConcUnlock(t)
    \/ \E t \in Goroutines : ConcRUnlock(t)
    \/ \E t \in Goroutines : ConcIO(t)
    \/ \E t \in Goroutines : ConcRead(t)
    \/ \E t \in Goroutines : ConcWrite(t)
    \/ ConcTick

SpecConc == ConcInit /\ [][ConcNext]_vars

(***************************************************************************)
(* Goroutines call Eval and Clear on one Engine.  Evaluator.EvalLine takes *)
(* the context's lock four times: in evalStmt, in MarkLastConsumed, in     *)
(* AddLineResult and in SetPrevious; a goroutine takes one of them per     *)
(* step, evalStmt with the parse before it in one step.  frame[t].i is the *)
(* call of EvalLine the goroutine is at, local[t] what it has computed.    *)
(***************************************************************************)
SessionInputs == {In100, In5Eur, InPlus50, InDivZero, InBlank}

Evaluating(input, line, value) ==
    [input |-> input, value |-> value, continuation |-> IsContinuationStmt(line.Stmt),
     assigned |-> IF line.Stmt.kind = "AssignStmt" THEN line.Stmt.Name ELSE <<>>]

AtCall(t, i) == frame[t].op = "Eval" /\ frame[t].i = i

\* Engine.Eval up to the return of evalStmt in EvalLine.
SessionEvalStmt(t, input) ==
    /\ ~Running(t)
    /\ steps < MaxSteps
    /\ steps' = steps + 1
    /\ IF TrimSpace(input) = <<>> \/ IsCommentLine(TrimSpace(input))
       THEN /\ lastCall' = Returned("Eval", input, <<Empty>>)
            /\ UNCHANGED <<heap, frame, local>>
       ELSE With(ParseLine(input), LAMBDA pl :
              IF pl.errs # <<>>
              THEN /\ lastCall' = Returned("Eval", input, <<Error(pl.errs[1].msg)>>)
                   /\ UNCHANGED <<heap, frame, local>>
              ELSE \E r \in evalStmt(heap, ctx, rates, pl.line.Stmt) :
                     /\ heap' = r.h
                     /\ local' = [local EXCEPT ![t] = Evaluating(input, pl.line, r.value)]
                     /\ frame' = [frame EXCEPT ![t] =
                                    [op |-> "Eval",
                                     i |-> IF IsContinuationStmt(pl.line.Stmt) THEN 1 ELSE 2,
                                     released |-> {}]]
                     /\ UNCHANGED lastCall)
    /\ UNCHANGED <<ctx, rates, rawRates, lastUpdate, now, fileCache, mu, rateCache, calls,
                   answer, nops, lexVars, parseVars, keyVars, clientVars>>

SessionMarkLastConsumed(t) ==
    /\ AtCall(t, 1)
    /\ heap' = MarkLastConsumed(heap, ctx)
    /\ frame' = [frame EXCEPT ![t].i = 2]
    /\ UNCHANGED <<ctx, lastCall, steps, local, rates, rawRates, lastUpdate, now, fileCache,
                   mu, rateCache, calls, answer, nops, lexVars, parseVars, keyVars,
                   clientVars>>

SessionAddLineResult(t) ==
    /\ AtCall(t, 2)
    /\ With(AddLineResult(heap, ctx,
                          LineResult(local[t].input, local[t].value, local[t].continuation,
                                     local[t].assigned)),
            LAMBDA added : heap' = Collect(added.h, added.c).h
                           /\ ctx' = Collect(added.h, added.c).c)
    /\ frame' = [frame EXCEPT ![t].i = 3]
    /\ UNCHANGED <<lastCall, steps, local, rates, rawRates, lastUpdate, now, fileCache,
                   mu, rateCache, calls, answer, nops, lexVars, parseVars, keyVars,
                   clientVars>>

\* SetPrevious, and the return of EvalLine and Eval.
SessionSetPrevious(t) ==
    /\ AtCall(t, 3)
    /\ ctx' = SetPrevious(ctx, local[t].value)
    /\ lastCall' = Returned("Eval", local[t].input, <<local[t].value>>)
    /\ frame' = [frame EXCEPT ![t] = Returned0]
    /\ local' = [local EXCEPT ![t] = NoFile]
    /\ UNCHANGED <<heap, steps, rates, rawRates, lastUpdate, now, fileCache,
                   mu, rateCache, calls, answer, nops, lexVars, parseVars, keyVars,
                   clientVars>>

SessionClear(t) ==
    /\ ~Running(t)
    /\ steps < MaxSteps
    /\ steps' = steps + 1
    /\ heap' = Collect(ContextClear(heap, ctx).h, ContextClear(heap, ctx).c).h
    /\ ctx' = Collect(ContextClear(heap, ctx).h, ContextClear(heap, ctx).c).c
    /\ lastCall' = Returned("Clear", <<>>, <<>>)
    /\ UNCHANGED <<frame, local, rates, rawRates, lastUpdate, now, fileCache,
                   mu, rateCache, calls, answer, nops, lexVars, parseVars, keyVars,
                   clientVars>>

SessionNext ==
    \/ \E t \in Goroutines : \E input \in SessionInputs : SessionEvalStmt(t, input)
    \/ \E t \in Goroutines : SessionMarkLastConsumed(t)
    \/ \E t \in Goroutines : SessionAddLineResult(t)
    \/ \E t \in Goroutines : SessionSetPrevious(t)
    \/ \E t \in Goroutines : SessionClear(t)

SpecSession == EvalInit /\ [][SessionNext]_vars

(***************************************************************************)
(* KEYMAP (internal/tui/keymap).  A key and a key sequence are strings,    *)
(* written as the sequences of their bytes; the KeyMap is its CurrentMode  *)
(* and its MotionState, of which no operation here touches LastAction,     *)
(* LastCount or LastMotion; the four binding maps are those of Default().  *)
(***************************************************************************)
MaxPresses == 3

NewBindingMap == [single |-> <<>>, sequences |-> <<>>]

SpecialKeys ==
    {<<"e", "n", "t", "e", "r">>, <<"t", "a", "b">>,
     <<"b", "a", "c", "k", "s", "p", "a", "c", "e">>, <<"d", "e", "l", "e", "t", "e">>,
     <<"e", "s", "c">>, <<"u", "p">>, <<"d", "o", "w", "n">>, <<"l", "e", "f", "t">>,
     <<"r", "i", "g", "h", "t">>, <<"h", "o", "m", "e">>, <<"e", "n", "d">>,
     <<"p", "g", "u", "p">>, <<"p", "g", "d", "o", "w", "n">>,
     <<"f", "1">>, <<"f", "2">>, <<"f", "3">>, <<"f", "4">>, <<"f", "5">>, <<"f", "6">>,
     <<"f", "7">>, <<"f", "8">>, <<"f", "9">>, <<"f", "1", "0">>, <<"f", "1", "1">>,
     <<"f", "1", "2">>}

Modifiers ==
    {<<"c", "t", "r", "l", "+">>, <<"a", "l", "t", "+">>, <<"s", "h", "i", "f", "t", "+">>}

isSpecialKey(key) == (\E m \in Modifiers : HasPrefix(key, m)) \/ key \in SpecialKeys

\* BindingMap.Bind.
Bind(b, key, action) ==
    IF key = <<>> THEN b
    ELSE IF Len(key) = 1 \/ isSpecialKey(key) THEN [b EXCEPT !.single = Put(@, key, action)]
    ELSE [b EXCEPT !.sequences =
            Put(@, <<key[1]>>,
                Append(IF <<key[1]>> \in DOMAIN b.sequences THEN b.sequences[<<key[1]>>]
                       ELSE <<>>,
                       [keys |-> key, action |-> action]))]

RECURSIVE BindAll(_, _)
BindAll(b, rows) ==
    IF rows = <<>> THEN b ELSE BindAll(Bind(b, Head(rows)[1], Head(rows)[2]), Tail(rows))

NormalDefaults ==
    <<<<<<"i">>, "insert_mode">>, <<<<"a">>, "append_mode">>, <<<<"v">>, "visual_mode">>,
      <<<<"h">>, "move_left">>, <<<<"j">>, "move_down">>, <<<<"k">>, "move_up">>,
      <<<<"l">>, "move_right">>, <<<<"l", "e", "f", "t">>, "move_left">>,
      <<<<"d", "o", "w", "n">>, "move_down">>, <<<<"u", "p">>, "move_up">>,
      <<<<"r", "i", "g", "h", "t">>, "move_right">>, <<<<"w">>, "move_word_next">>,
      <<<<"b">>, "move_word_prev">>, <<<<"0">>, "goto_line_start">>,
      <<<<"^">>, "goto_line_start">>, <<<<"$">>, "goto_line_end">>,
      <<<<"h", "o", "m", "e">>, "goto_line_start">>, <<<<"e", "n", "d">>, "goto_line_end">>,
      <<<<"g", "g">>, "goto_top">>, <<<<"G">>, "goto_bottom">>,
      <<<<"c", "t", "r", "l", "+", "u">>, "page_up">>,
      <<<<"c", "t", "r", "l", "+", "d">>, "page_down">>,
      <<<<"p", "g", "u", "p">>, "page_up">>,
      <<<<"p", "g", "d", "o", "w", "n">>, "page_down">>, <<<<"x">>, "delete_char">>,
      <<<<"X">>, "delete_char_back">>, <<<<"d", "d">>, "delete_line">>,
      <<<<"D">>, "delete_to_end">>, <<<<"y", "y">>, "yank_line">>, <<<<"Y">>, "yank_line">>,
      <<<<"p">>, "paste">>, <<<<"P">>, "paste_above">>, <<<<"u">>, "undo">>,
      <<<<"c", "t", "r", "l", "+", "r">>, "redo">>, <<<<"J">>, "join_lines">>,
      <<<<"o">>, "open_below">>, <<<<"O">>, "open_above">>, <<<<"d">>, "operator_delete">>,
      <<<<"y">>, "operator_yank">>, <<<<"c">>, "operator_change">>, <<<<"q">>, "quit">>,
      <<<<"c", "t", "r", "l", "+", "c">>, "force_quit">>,
      <<<<"c", "t", "r", "l", "+", "q">>, "force_quit">>,
      <<<<"c", "t", "r", "l", "+", "s">>, "save">>, <<<<"Z", "Z">>, "save_quit">>,
      <<<<"Z", "Q">>, "force_quit">>, <<<<"?">>, "toggle_help">>,
      <<<<"f", "1">>, "toggle_help">>,
      <<<<"c", "t", "r", "l", "+", "l">>, "toggle_line_numbers">>>>

InsertDefaults ==
    <<<<<<"e", "s", "c">>, "normal_mode">>,
      <<<<"c", "t", "r", "l", "+", "c">>, "normal_mode">>,
      <<<<"c", "t", "r", "l", "+", "[">>, "normal_mode">>,
      <<<<"b", "a", "c", "k", "s", "p", "a", "c", "e">>, "backspace">>,
      <<<<"d", "e", "l", "e", "t", "e">>, "delete">>,
      <<<<"e", "n", "t", "e", "r">>, "insert_newline">>, <<<<"t", "a", "b">>, "insert_tab">>,
      <<<<"u", "p">>, "move_up">>, <<<<"d", "o", "w", "n">>, "move_down">>,
      <<<<"l", "e", "f", "t">>, "move_left">>, <<<<"r", "i", "g", "h", "t">>, "move_right">>,
      <<<<"h", "o", "m", "e">>, "goto_line_start">>, <<<<"e", "n", "d">>, "goto_line_end">>,
      <<<<"c", "t", "r", "l", "+", "s">>, "save">>>>

VisualDefaults ==
    <<<<<<"e", "s", "c">>, "normal_mode">>,
      <<<<"c", "t", "r", "l", "+", "c">>, "normal_mode">>, <<<<"v">>, "normal_mode">>,
      <<<<"h">>, "move_left">>, <<<<"j">>, "move_down">>, <<<<"k">>, "move_up">>,
      <<<<"l">>, "move_right">>, <<<<"l", "e", "f", "t">>, "move_left">>,
      <<<<"d", "o", "w", "n">>, "move_down">>, <<<<"u", "p">>, "move_up">>,
      <<<<"r", "i", "g", "h", "t">>, "move_right">>, <<<<"w">>, "move_word_next">>,
      <<<<"b">>, "move_word_prev">>, <<<<"0">>, "goto_line_start">>,
      <<<<"$">>, "goto_line_end">>, <<<<"g", "g">>, "goto_top">>, <<<<"G">>, "goto_bottom">>,
      <<<<"d">>, "operator_delete">>, <<<<"y">>, "operator_yank">>,
      <<<<"c">>, "operator_change">>, <<<<"x">>, "operator_delete">>>>

OperatorDefaults ==
    <<<<<<"e", "s", "c">>, "normal_mode">>,
      <<<<"c", "t", "r", "l", "+", "c">>, "normal_mode">>, <<<<"h">>, "move_left">>,
      <<<<"j">>, "move_down">>, <<<<"k">>, "move_up">>, <<<<"l">>, "move_right">>,
      <<<<"w">>, "move_word_next">>, <<<<"b">>, "move_word_prev">>,
      <<<<"0">>, "goto_line_start">>, <<<<"$">>, "goto_line_end">>,
      <<<<"g", "g">>, "goto_top">>, <<<<"G">>, "goto_bottom">>, <<<<"d">>, "delete_line">>,
      <<<<"y">>, "yank_line">>, <<<<"c">>, "delete_line">>>>

\* KeyMap.LoadDefaults: the binding map of each mode.
LoadDefaults ==
    [ModeNormal          |-> BindAll(NewBindingMap, NormalDefaults),
     ModeInsert          |-> BindAll(NewBindingMap, InsertDefaults),
     ModeVisual          |-> BindAll(NewBindingMap, VisualDefaults),
     ModeOperatorPending |-> BindAll(NewBindingMap, OperatorDefaults)]

\* The actions whose metadata in actionRegistry has IsOperator set.
IsOperator(action) == action \in {"operator_delete", "operator_yank", "operator_change"}

getSequenceKeys(seqs) == [i \in DOMAIN seqs |-> seqs[i].keys]

LookupResult(action, status, possible) ==
    [Action |-> action, Status |-> status, PossibleSequences |-> possible]

\* The loop of Lookup over the sequences of the first key.
lookupSequence(seqs, keys) ==
    LET exact    == {i \in DOMAIN seqs : seqs[i].keys = keys}
        exactMatch == IF exact = {} THEN "" ELSE seqs[MaxOf(exact)].action
        possibleMatches ==
            getSequenceKeys(SelectSeq(seqs, LAMBDA s : s.keys # keys /\ HasPrefix(s.keys, keys)))
    IN  IF exactMatch # ""
        THEN IF possibleMatches # <<>>
             THEN LookupResult(exactMatch, "LookupPending", possibleMatches)
             ELSE LookupResult(exactMatch, "LookupFound", <<>>)
        ELSE IF possibleMatches # <<>>
        THEN LookupResult("", "LookupPartialMatch", possibleMatches)
        ELSE LookupResult("", "LookupNotFound", <<>>)

\* BindingMap.Lookup.
Lookup(b, keys) ==
    IF keys = <<>> THEN LookupResult("", "LookupNotFound", <<>>)
    ELSE IF Len(keys) = 1 \/ isSpecialKey(keys)
    THEN IF keys \in DOMAIN b.single
         THEN IF keys \in DOMAIN b.sequences /\ b.sequences[keys] # <<>>
              THEN LookupResult(b.single[keys], "LookupPending",
                                getSequenceKeys(b.sequences[keys]))
              ELSE LookupResult(b.single[keys], "LookupFound", <<>>)
         ELSE IF keys \in DOMAIN b.sequences /\ b.sequences[keys] # <<>>
         THEN LookupResult("", "LookupPending", getSequenceKeys(b.sequences[keys]))
         ELSE LookupResult("", "LookupNotFound", <<>>)
    ELSE IF <<keys[1]>> \notin DOMAIN b.sequences THEN LookupResult("", "LookupNotFound", <<>>)
    ELSE lookupSequence(b.sequences[<<keys[1]>>], keys)

Contains(str, sub) ==
    \E i \in 1..(Len(str) - Len(sub) + 1) : SubSeq(str, i, i + Len(sub) - 1) = sub

NormalizeKey(key) ==
    LET lower == ToLowerStr(key)
    IN  CASE lower = <<"r", "e", "t", "u", "r", "n">> -> <<"e", "n", "t", "e", "r">>
          [] lower = <<"e", "s", "c", "a", "p", "e">> -> <<"e", "s", "c">>
          [] lower = <<"p", "a", "g", "e", "u", "p">> -> <<"p", "g", "u", "p">>
          [] lower = <<"p", "a", "g", "e", "d", "o", "w", "n">> -> <<"p", "g", "d", "o", "w", "n">>
          [] lower \in {<<"s", "p", "a", "c", "e">>, <<" ">>} -> <<"s", "p", "a", "c", "e">>
          [] OTHER -> IF \E m \in Modifiers : Contains(lower, m) THEN lower ELSE key

\* MotionState.
NewMotionState == [Count |-> 0, PendingOperator |-> "", KeyBuffer |-> <<>>]

Reset(st) == [st EXCEPT !.Count = 0, !.PendingOperator = "", !.KeyBuffer = <<>>]

\* AddDigit: [st, consumed].
AddDigit(st, d) ==
    IF d \notin Digits THEN [st |-> st, consumed |-> FALSE]
    ELSE IF d = "0" /\ st.Count = 0 /\ st.KeyBuffer = <<>> THEN [st |-> st, consumed |-> FALSE]
    ELSE [st |-> [st EXCEPT !.Count = st.Count * 10 + DigitVal(d)], consumed |-> TRUE]

GetCount(st) == IF st.Count = 0 THEN 1 ELSE st.Count

HasPendingOperator(st) == st.PendingOperator # ""

AddKey(st, key) == [st EXCEPT !.KeyBuffer = @ \o key]

\* Command, without Char and Raw, which no function here sets.
Command(action, count, motion, motionCount) ==
    [Action |-> action, Count |-> count, Motion |-> motion, MotionCount |-> motionCount]

NoCommand == Command("", 0, "", 0)

NewCommand(action, count) == Command(action, IF count < 1 THEN 1 ELSE count, "", 0)

NewOperatorCommand(operator, operatorCount, motion, motionCount) ==
    Command(operator, IF operatorCount < 1 THEN 1 ELSE operatorCount,
            motion, IF motionCount < 1 THEN 1 ELSE motionCount)

\* KeyMap.lookupCurrentSequence on a KeyMap k = [CurrentMode, State].
lookupCurrentSequence(k) ==
    Lookup(LoadDefaults[IF HasPendingOperator(k.State) THEN "ModeOperatorPending"
                        ELSE k.CurrentMode],
           k.State.KeyBuffer)

\* KeyMap.buildCommand: [st, cmd].
buildCommand(k, action) ==
    IF IsOperator(action) /\ ~HasPendingOperator(k.State)
    THEN [st |-> [k.State EXCEPT !.PendingOperator = action, !.KeyBuffer = <<>>],
          cmd |-> NoCommand]
    ELSE IF HasPendingOperator(k.State)
    THEN [st |-> k.State,
          cmd |-> NewOperatorCommand(k.State.PendingOperator, GetCount(k.State), action, 1)]
    ELSE [st |-> k.State, cmd |-> NewCommand(action, GetCount(k.State))]

\* ProcessKey after the digit test, on the KeyMap whose buffer holds the key:
\* [st, cmd, ok].
processSequence(k) ==
    With(lookupCurrentSequence(k), LAMBDA r :
      IF r.Status = "LookupFound" \/ (r.Status = "LookupPending" /\ r.Action # "")
      THEN [st |-> Reset(buildCommand(k, r.Action).st),
            cmd |-> buildCommand(k, r.Action).cmd, ok |-> TRUE]
      ELSE IF r.Status = "LookupNotFound"
      THEN [st |-> Reset(k.State), cmd |-> NoCommand, ok |-> FALSE]
      ELSE [st |-> k.State, cmd |-> NoCommand, ok |-> FALSE])

\* KeyMap.ProcessKey: [st, cmd, ok].
ProcessKeyOutcome(k, key0) ==
    LET key == NormalizeKey(key0)
    IN  IF Len(key) = 1 /\ key[1] \in Digits /\ AddDigit(k.State, key[1]).consumed
        THEN [st |-> AddDigit(k.State, key[1]).st, cmd |-> NoCommand, ok |-> FALSE]
        ELSE processSequence([k EXCEPT !.State = AddKey(k.State, key)])

PressedKeys ==
    {<<"d">>, <<"y">>, <<"c">>, <<"j">>, <<"w">>, <<"g">>, <<"5">>, <<"0">>,
     <<"e", "s", "c">>, <<"E", "s", "c", "a", "p", "e">>}

Modes == {"ModeNormal", "ModeInsert", "ModeVisual"}

ProcessKey(key) ==
    /\ Len(typed) < MaxPresses
    /\ km' = [km EXCEPT !.State = ProcessKeyOutcome(km, key).st]
    /\ command' = [cmd |-> ProcessKeyOutcome(km, key).cmd, ok |-> ProcessKeyOutcome(km, key).ok]
    /\ typed' = Append(typed, key)
    /\ UNCHANGED <<cacheVars, lexVars, parseVars, evalVars, concVars, clientVars>>

\* KeyMap.SetMode.
SetMode(mode) ==
    /\ Len(typed) < MaxPresses
    /\ km' = [CurrentMode |-> mode, State |-> Reset(km.State)]
    /\ typed' = Append(typed, <<mode>>)
    /\ UNCHANGED <<command, cacheVars, lexVars, parseVars, evalVars, concVars, clientVars>>

\* KeyMap.Reset.
KeyMapReset ==
    /\ Len(typed) < MaxPresses
    /\ km' = [km EXCEPT !.State = Reset(km.State)]
    /\ typed' = Append(typed, <<"Reset">>)
    /\ UNCHANGED <<command, cacheVars, lexVars, parseVars, evalVars, concVars, clientVars>>

\* Default(): the KeyMap with the default bindings, in normal mode.
KeysInit ==
    /\ rates = loadDefaults
    /\ CacheStart
    /\ LexIdle
    /\ ParseIdle
    /\ EngineIdle
    /\ ConcIdle
    /\ ClientIdle
    /\ km = [CurrentMode |-> "ModeNormal", State |-> NewMotionState]
    /\ command = [cmd |-> NoCommand, ok |-> FALSE]
    /\ typed = <<>>

KeysNext ==
    \/ \E key \in PressedKeys : ProcessKey(key)
    \/ \E mode \in Modes : SetMode(mode)
    \/ KeyMapReset

SpecKeys == KeysInit /\ [][KeysNext]_vars

(***************************************************************************)
(* HTTP CLIENT (internal/fetch/fetch.go).  One call of Client.Do on a      *)
(* Client built by NewClientWithOptions; durations are whole numbers of    *)
(* one unit.  request.at is the statement of Do the call stands at, sent   *)
(* counts the calls of c.http.Do and waited is the last backoff waited.    *)
(***************************************************************************)
MaxRetriesOption == 2

BackoffBases == {1, 3}

BackoffMaxes == {2, 4}

Statuses == {200, 404, 429, 500, 502, 503, 504}

TransportErrors == {"DeadlineExceeded", "Canceled", "refused"}

RECURSIVE backoffLoop(_, _, _, _)
backoffLoop(c, backoff, i, attempt) ==
    IF i >= attempt THEN backoff
    ELSE IF backoff * 2 > c.backoffMax THEN c.backoffMax
    ELSE backoffLoop(c, backoff * 2, i + 1, attempt)

calculateBackoff(c, attempt) == backoffLoop(c, c.backoffBase, 1, attempt)

wrapError(err) == IF err = "DeadlineExceeded" THEN "ErrTimeout" ELSE err

statusError(status) ==
    CASE status = 404 -> "ErrNotFound"
      [] status \in {401, 403} -> "ErrUnauthorized"
      [] status = 429 -> "ErrRateLimited"
      [] OTHER -> "ErrRequestFailed"

isRetryable(err) == err = "DeadlineExceeded"

isRetryableStatus(status) == status \in {429, 503, 504, 502}

\* return nil, err and return newResponse(resp), nil.
Return(r, status, err) == [r EXCEPT !.at = "returned", !.status = status, !.err = err]

\* continue: the next pass of the loop, or the return after it.
Continue(c, r) ==
    IF r.attempt + 1 <= c.maxRetries THEN [r EXCEPT !.at = "Wait", !.attempt = @ + 1]
    ELSE Return([r EXCEPT !.attempt = @ + 1], 0,
                IF r.lastErr # "" THEN r.lastErr ELSE "ErrRequestFailed")

outsideClient == <<cacheVars, lexVars, parseVars, evalVars, concVars, keyVars>>

DoCall ==
    /\ request.at = "idle"
    /\ request' = IF 0 <= client.maxRetries THEN [request EXCEPT !.at = "Wait"]
                  ELSE Return(request, 0, "ErrRequestFailed")
    /\ UNCHANGED <<client, outsideClient>>

\* rateLimiter.Wait: a token is there, or the call waits for one and the
\* select takes the timer or the cancelled context.
DoWait ==
    /\ request.at = "Wait"
    /\ \E token \in BOOLEAN, done \in BOOLEAN :
         request' = IF ~token /\ done /\ request.cancelled
                    THEN Return(request, 0, "Canceled")
                    ELSE [request EXCEPT !.at = IF request.attempt > 0 THEN "Backoff"
                                                ELSE "Send"]
    /\ UNCHANGED <<client, outsideClient>>

\* The select on ctx.Done() and time.After(backoff).
DoBackoff ==
    /\ request.at = "Backoff"
    /\ \E done \in BOOLEAN :
         request' = IF done /\ request.cancelled
                    THEN Return(request, 0, "Canceled")
                    ELSE [request EXCEPT !.at = "Send",
                                         !.waited = calculateBackoff(client, request.attempt)]
    /\ UNCHANGED <<client, outsideClient>>

\* c.http.Do returns an error.
DoSendError ==
    /\ request.at = "Send"
    /\ \E err \in TransportErrors :
         /\ err = "Canceled" => request.cancelled
         /\ request' = With([request EXCEPT !.sent = @ + 1, !.lastErr = wrapError(err)],
                            LAMBDA r : IF isRetryable(err) THEN Continue(client, r)
                                       ELSE Return(r, 0, r.lastErr))
    /\ UNCHANGED <<client, outsideClient>>

\* c.http.Do returns a response.
DoSendStatus ==
    /\ request.at = "Send"
    /\ \E status \in Statuses :
         request' = With([request EXCEPT !.sent = @ + 1], LAMBDA r :
                      IF status >= 200 /\ status < 300 THEN Return(r, status, "")
                      ELSE With([r EXCEPT !.lastErr = statusError(status)], LAMBDA q :
                             IF isRetryableStatus(status) THEN Continue(client, q)
                             ELSE Return(q, 0, q.lastErr)))
    /\ UNCHANGED <<client, outsideClient>>

\* The caller cancels the context.
DoCancel ==
    /\ request.at # "returned"
    /\ ~request.cancelled
    /\ request' = [request EXCEPT !.cancelled = TRUE]
    /\ UNCHANGED <<client, outsideClient>>

\* NewClientWithOptions(WithMaxRetries(n), WithBackoff(base, max)).
ClientInit ==
    /\ rates = loadDefaults
    /\ CacheStart
    /\ LexIdle
    /\ ParseIdle
    /\ EngineIdle
    /\ ConcIdle
    /\ KeysIdle
    /\ client \in [maxRetries : 0..MaxRetriesOption, backoffBase : BackoffBases,
                   backoffMax : BackoffMaxes]
    /\ request = [at |-> "idle", attempt |-> 0, sent |-> 0, waited |-> 0, cancelled |-> FALSE,
                  lastErr |-> "", err |-> "", status |-> 0]

ClientNext ==
    \/ DoCall
    \/ DoWait
    \/ DoBackoff
    \/ DoSendError
    \/ DoSendStatus
    \/ DoCancel

SpecClient == ClientInit /\ [][ClientNext]_vars

\* The goroutine in Do is scheduled, its timers fire and c.http.Do returns.
FairClient ==
    SpecClient /\ WF_vars(DoCall) /\ WF_vars(DoWait) /\ WF_vars(DoBackoff)
        /\ WF_vars(DoSendError \/ DoSendStatus)

(***************************************************************************)
(* Properties of the rate cache.                                           *)
(***************************************************************************)
Swap(p) == <<p[2], p[1]>>

RECURSIVE ReachFrom(_, _)
ReachFrom(rt, S) ==
    LET N == S \cup {p[2] : p \in {q \in DOMAIN rt : q[1] \in S}}
    IN  IF N = S THEN S ELSE ReachFrom(rt, N)

\* Some chain of stored rates leads from f to t.
Connected(rt, f, t) == t \in ReachFrom(rt, {f})

\* C4: every stored pair (A,B) = r with r # 0 is accompanied by a stored pair
\* (B,A) whose rate is 1/r.
C4_InverseStored ==
    \A p \in DOMAIN rates :
        rates[p] # Zero =>
            /\ Swap(p) \in DOMAIN rates
            /\ rates[Swap(p)] = RInv(rates[p])

\* C5: GetRate is deterministic: the answer a call returned is the only answer
\* the stored table admits for that (from, to).
C5_GetRateDeterministic ==
    answer.asked =>
        GetRateOutcomes(rates, answer.from, answer.to)
            = {[ok |-> answer.ok, rate |-> answer.rate]}

\* The table holds only the rates A->B and B->C (with their derived inverses).
OnlyChain(rt, a, b, c) ==
    /\ a # b /\ b # c /\ a # c
    /\ {<<a, b>>, <<b, c>>} \subseteq DOMAIN rt
    /\ DOMAIN rt \subseteq {<<a, b>>, <<b, a>>, <<b, c>>, <<c, b>>}

\* C6: with only A->B and B->C stored, GetRate(A,C) returns rate(A,B) x rate(B,C);
\* and when no chain of stored rates connects from to to, GetRate reports
\* not-found.
C6_MultiHop ==
    answer.asked =>
        /\ \A b \in Codes :
               OnlyChain(rates, answer.from, b, answer.to) =>
                   /\ answer.ok
                   /\ answer.rate = RMul(rates[<<answer.from, b>>],
                                         rates[<<b, answer.to>>])
        /\ ~Connected(rates, answer.from, answer.to) => ~answer.ok

\* A two-hop answer whose two edge rates differ from 1.
C6_Witness ==
    /\ answer.asked /\ answer.ok
    /\ \E b \in Codes :
           /\ OnlyChain(rates, answer.from, b, answer.to)
           /\ rates[<<answer.from, b>>] = <<3, 1>>
           /\ rates[<<b, answer.to>>] = <<3, 1>>

(***************************************************************************)
(* Properties of the lexer.                                                *)
(***************************************************************************)
\* The nearest non-space byte before 0-based offset p of the input, if any.
NonSpaceBefore(input, p) == {i \in 1..p : input[i] \notin {" ", "\t"}}

AtInputStartOrAfterOperator(input, p) ==
    LET before == NonSpaceBefore(input, p)
    IN  \/ before = {}
        \/ input[CHOOSE i \in before : \A j \in before : j <= i] \in ExprStartChars

IsNegativeNumberToken(t) ==
    t.type \in {"NUMBER", "PERCENT"} /\ t.literal # <<>> /\ t.literal[1] = "-"

\* C7: a "-" immediately followed by a digit becomes the sign of a negative
\* NUMBER token only at input start or when the nearest preceding non-space
\* character is an operator, "(", "=" or ","; everywhere else (after a digit,
\* an identifier, ")") it is the MINUS operator.
C7_NegativeOnlyAtExprStart ==
    \A i \in DOMAIN tokens :
        IsNegativeNumberToken(tokens[i]) =>
            AtInputStartOrAfterOperator(lex.input, tokens[i].pos)

(***************************************************************************)
(* Properties of the parser.                                               *)
(***************************************************************************)
HasSuffix(input, suffix) ==
    /\ Len(input) > Len(suffix)
    /\ SubSeq(input, Len(input) - Len(suffix) + 1, Len(input)) = suffix

WithoutSuffix(input, suffix) == SubSeq(input, 1, Len(input) - Len(suffix))

ConvertsWholeChain(suffix) ==
    (HasSuffix(parser.input, suffix)
        /\ WithoutSuffix(parser.input, suffix) \in ChainInputs)
    => parsed.line.Stmt =
         ExprStmt(ConversionExpr(
             ParseLine(WithoutSuffix(parser.input, suffix)).line.Stmt.Expr,
             <<"E", "U", "R">>))

\* C8: a trailing `in IDENT` / `to IDENT` converts the entire binary
\* expression before it: for every chain of operands and binary operators,
\* `chain in EUR` parses as ConversionExpr(chain, EUR).
C8_SuffixConvertsWholeExpr ==
    parsed.done => (ConvertsWholeChain(SuffixIn) /\ ConvertsWholeChain(SuffixTo))

(***************************************************************************)
(* Properties of the engine.                                               *)
(***************************************************************************)
sessionLines == SliceElems(heap, ctx.lines)

sessionView == View(heap, ctx, rates)

Returns(ops, inputs) == lastCall.op \in ops /\ lastCall.input \in inputs

\* C1: "10 USD + 5 EUR" and "$10 + €5" evaluate to 10 USD plus the 5 EUR
\* converted at the cache's EUR->USD rate, and to an Error when the cache has
\* no such rate.
C1_CrossCurrencyNeedsRate ==
    Returns({"Eval", "EvalPreview"}, {InUsdPlusEur, InSymbols}) =>
        \E cv \in Convert(rates, <<5, 1>>, "EUR", "USD") :
            IF cv.ok
            THEN lastCall.values[1] = CurrencyValue(RAdd(<<10, 1>>, cv.value), "USD")
            ELSE IsError(lastCall.values[1])

LastValid(lines) ==
    LET valid == {i \in DOMAIN lines :
                    lines[i].Value.Kind # "Empty" /\ lines[i].Value.Kind # "Error"}
    IN  IF valid = {} THEN 0 ELSE CHOOSE i \in valid : \A j \in valid : j <= i

Without(lines, k) == [i \in 1..(Len(lines) - 1) |-> IF i < k THEN lines[i] ELSE lines[i + 1]]

EvalOfContinuation ==
    /\ steps' = steps + 1
    /\ lastCall'.op = "Eval"
    /\ lastCall'.input = InPlus50

\* C2: Eval("+ 50") returns the previous result plus 50, marks the most recent
\* non-empty, non-error prior line consumed and changes no other prior line,
\* and Total() afterwards is the total of the other lines plus the new result.
C2_ContinuationConsumesLastValid ==
    [][EvalOfContinuation =>
        LET old == sessionLines
            new == sessionLines'
            k   == LastValid(old)
            v   == lastCall'.values[1]
        IN  /\ HasPrevious(ctx) => v = WithAmount(ctx.previous, RAdd(ctx.previous.Num, <<50, 1>>))
            /\ Len(new) = Len(old) + 1
            /\ new[Len(new)].Value = v /\ new[Len(new)].IsContinuation
            /\ \A i \in DOMAIN old :
                 new[i] = IF i = k THEN [old[i] EXCEPT !.IsConsumed = TRUE] ELSE old[i]
            /\ k # 0 => calculateTotal(sessionView') = calculateTotal([lines |-> Without(new, k)])
      ]_vars

\* "100" then "+ 50": 150, line 1 consumed, Total() = 150.
C2_Witness ==
    /\ Returns({"Eval"}, {InPlus50})
    /\ lastCall.values = <<Number(<<150, 1>>)>>
    /\ Len(sessionLines) = 2
    /\ sessionLines[1].Input = In100 /\ sessionLines[1].IsConsumed
    /\ calculateTotal(sessionView) = Number(<<150, 1>>)

\* C3: EvalPreview leaves the variables, the previous result, the line
\* history with its consumed flags, and the rates as they were, so whatever
\* is evaluated next sees the session the preview found.
C3_PreviewLeavesSession ==
    [][(steps' = steps + 1 /\ lastCall'.op = "EvalPreview") => sessionView' = sessionView]_vars

\* A preview of "+ 50" or of "x = 5" on a session that has a line to consume.
C3_Witness ==
    /\ Returns({"EvalPreview"}, {InPlus50, InAssign})
    /\ ~IsError(lastCall.values[1])
    /\ LastValid(sessionLines) # 0
    /\ ~sessionLines[LastValid(sessionLines)].IsConsumed

Unconvertible(lr) ==
    /\ ~lr.IsConsumed
    /\ lr.Value.Kind \in {"Currency", "Crypto"}
    /\ LET code == IF lr.Value.Kind = "Currency" THEN lr.Value.Curr ELSE lr.Value.Crypto
       IN  code # "USD" /\ \A cv \in Convert(rates, lr.Value.Num, code, "USD") : ~cv.ok

\* C9: when a line of the session holds a currency or crypto amount that the
\* cache cannot convert, GroupedTotals reports an Error instead of a total
\* that leaves the amount out or counts it as zero.
C9_TotalsReportFailedConversion ==
    (lastCall.op = "GroupedTotals"
        /\ \E i \in DOMAIN sessionLines : Unconvertible(sessionLines[i]))
    => \E j \in DOMAIN lastCall.values : IsError(lastCall.values[j])

(***************************************************************************)
(* Properties of the locking.                                              *)
(***************************************************************************)
\* C10: a goroutine inside an operation of the cache or of the context
\* touches the object's fields only while it holds the object's lock (the
\* write lock to write), takes that lock once per operation, and holds no
\* lock when it calls into the file system.
C10_LockHeldAndNoIOUnderLock ==
    \A t \in Goroutines :
        Running(t) =>
            /\ Instr(t).k = "IO" => \A o \in DOMAIN mu : ~Holds(t, o)
            /\ Instr(t).k = "Read" => Holds(t, Instr(t).obj)
            /\ Instr(t).k = "Write" => mu[Instr(t).obj].writer = t
            /\ Instr(t).k \in {"Lock", "RLock"} => Instr(t).obj \notin frame[t].released

(***************************************************************************)
(* Properties of assignment and of variable lookup.                        *)
(***************************************************************************)
sessionVariables == heap.maps[ctx.variables]

Assignments ==
    {[input |-> InAssign, name |-> <<"x">>],
     [input |-> InAssignDivZero, name |-> <<"x">>],
     [input |-> InAssignTotal, name |-> <<"t", "o", "t", "a", "l">>],
     [input |-> InAssignTax, name |-> <<"T", "a", "x">>],
     [input |-> InAssignRate, name |-> <<"r", "a", "t", "e">>]}

EvalOf(input) ==
    /\ steps' = steps + 1
    /\ lastCall'.op = "Eval"
    /\ lastCall'.input = input

\* What an assignment of name leaves behind: a successful right-hand side is
\* bound to exactly that name and to no other, and is the line's value and
\* the previous result; an Error binds nothing.
AssignmentStored(name) ==
    LET v == lastCall'.values[1]
    IN  IF IsError(v) THEN sessionVariables' = sessionVariables
        ELSE /\ sessionVariables' = Put(sessionVariables, name, v)
             /\ sessionLines'[Len(sessionLines')].Value = v
             /\ sessionLines'[Len(sessionLines')].AssignedVar = name
             /\ ctx'.previous = v

\* C11 (as stated): an assignment whose right-hand side evaluates
\* successfully stores the value under exactly the given name, for every
\* name, and the value is the line's value and the new previous result; an
\* Error right-hand side stores nothing.
C11_AssignmentStoresEveryName ==
    [][\A a \in Assignments : EvalOf(a.input) => AssignmentStored(a.name)]_vars

\* C11 (amended): the same for every name other than "_", "ans" and "total"
\* in any letter case; an assignment to one of those stores nothing, and its
\* value is still the line's value and the previous result.
C11_AssignmentStores ==
    [][\A a \in Assignments : EvalOf(a.input) =>
          IF IsSpecialName(a.name)
          THEN /\ sessionVariables' = sessionVariables
               /\ sessionLines'[Len(sessionLines')].Value = lastCall'.values[1]
               /\ ctx'.previous = lastCall'.values[1]
          ELSE AssignmentStored(a.name)]_vars

\* "Tax = 5" was evaluated on a session that already binds x, and "Tax" is
\* now bound to 5 next to it.
C11_Witness ==
    /\ Returns({"Eval"}, {InAssignTax})
    /\ lastCall.values = <<Number(<<5, 1>>)>>
    /\ DOMAIN sessionVariables = {<<"x">>, <<"T", "a", "x">>}
    /\ sessionVariables[<<"T", "a", "x">>] = Number(<<5, 1>>)
    /\ ctx.previous = Number(<<5, 1>>)

(***************************************************************************)
(* Properties of arithmetic.                                               *)
(***************************************************************************)
\* C12: "1 km + 500 m" and "2 km - 500 m" are the left amount plus or minus
\* the right amount converted to km, in km; "5 km + 2 kg" is an Error.
C12_UnitsConvertRightIntoLeft ==
    /\ Returns({"Eval"}, {InKmPlusM}) => lastCall.values = <<UnitValue(<<3, 2>>, "km")>>
    /\ Returns({"Eval"}, {InKmMinusM}) => lastCall.values = <<UnitValue(<<3, 2>>, "km")>>
    /\ Returns({"Eval"}, {InKmPlusKg}) => IsError(lastCall.values[1])

DivZeroLines ==
    {InDivZero, InUsdDivZero, InBtcDivZero, InKmDivZeroKm, InDivZeroPercent, InDivUnbound}

DivZeroContinuations == {InContDivZero, InContDivUnbound}

ZeroOperands ==
    {Number(Zero), Percentage(Zero), CurrencyValue(Zero, "USD"), UnitValue(Zero, "km"),
     MetalValue(Zero, "XAU"), CryptoValue(Zero, "BTC")}

\* C13 (as stated): a line that divides by something resolving to zero is an
\* Error, whatever the kinds of the operands, when the zero is an unresolved
\* identifier and when the line is a continuation.
C13_DivisionByZeroIsErrorOnEveryLine ==
    Returns({"Eval"}, DivZeroLines \cup DivZeroContinuations) => IsError(lastCall.values[1])

\* C13 (amended): a division line with a zero right operand is an Error; a
\* continuation line dividing by zero is an Error when the session has a
\* previous result to divide, and is its operand alone (0) when it has none;
\* dividing or taking the remainder of any previous result by a zero of any
\* kind is an Error.
C13_DivisionByZeroIsError ==
    [][/\ (\E i \in DivZeroLines : EvalOf(i)) => IsError(lastCall'.values[1])
       /\ (\E i \in DivZeroContinuations : EvalOf(i)) =>
             IF HasPrevious(ctx) THEN IsError(lastCall'.values[1])
             ELSE lastCall'.values[1] = Number(Zero)
       /\ \A op \in {"OpDiv", "OpMod"}, r \in ZeroOperands :
             \A v \in applyBinaryOp(sessionView, op, ctx.previous, r) : IsError(v)
      ]_vars

\* "5 EUR" then "/ 0": the continuation divided a currency amount by zero.
C13_Witness ==
    /\ Returns({"Eval"}, {InContDivZero})
    /\ IsError(lastCall.values[1])
    /\ Len(sessionLines) = 2
    /\ sessionLines[1].Input = In5Eur /\ sessionLines[1].IsConsumed
    /\ ctx.previous = CurrencyValue(<<5, 1>>, "EUR")

(***************************************************************************)
(* Properties of ingestion.                                                *)
(***************************************************************************)
\* The pair an entry of a raw map is quoted for: token -> USD for a crypto
\* code, USD -> code for any other.
QuotedPair(code) == IF IsCrypto(code) THEN <<code, "USD">> ELSE <<"USD", code>>

Serves(rt, p, r) == GetRateOutcomes(rt, p[1], p[2]) = {Found(r)}

ServesReciprocal(rt, p, r) ==
    \A o \in GetRateOutcomes(rt, p[1], p[2]) : o.ok /\ RMul(o.rate, r) = One

C15_IngestionOverwritesWholesale ==
    [][\A m \in RawInputs : ApplyRawRates(m) =>
          /\ rates' = ApplyRawRatesTable(EmptyMap, m)
          /\ \A p \in Codes \X Codes :
                (p[1] # p[2] /\ {p[1], p[2]} \ (DOMAIN m \cup {"USD"}) # {}) =>
                    GetRateOutcomes(rates', p[1], p[2]) = {NotFound}]_vars

\* C16: GetRate(A, A) is 1 for every code A, and the table never holds an
\* entry for an identity pair (A, A).
C16_IdentityNeverStored ==
    /\ \A a \in Codes : GetRateOutcomes(rates, a, a) = {Found(One)}
    /\ \A p \in DOMAIN rates : p[1] # p[2]

(***************************************************************************)
(* Properties of the tokens.                                               *)
(***************************************************************************)
RECURSIVE LiteralBytes(_)
LiteralBytes(literal) ==
    IF literal = <<>> THEN <<>> ELSE RuneBytes(Head(literal)) \o LiteralBytes(Tail(literal))

InputAt(input, pos, n) ==
    IF pos + n <= Len(input) THEN SubSeq(input, pos + 1, pos + n) ELSE Rest(input, pos)

\* C17: the input read from a token's Pos for the length of its Literal is
\* the Literal.
C17_LiteralIsInputAtPos ==
    \A i \in DOMAIN tokens :
        InputAt(lex.input, tokens[i].pos, Len(LiteralBytes(tokens[i].literal)))
            = LiteralBytes(tokens[i].literal)

\* The table lists word as a continuation of first.
ListedFor(first, word) ==
    \E i \in DOMAIN multiWordPrefixes(ToLowerStr(first)) :
        multiWordPrefixes(ToLowerStr(first))[i] = ToLowerStr(word)

\* The lexer after reading the first word of its input and nothing more.
AfterFirstWord(input) == readWord([l |-> NewLexer(input), sb |-> <<>>], TRUE).l

\* C18: when the word after the first word is one the table lists for it, the
\* first token is one identifier holding both words; when it is not, the
\* first token is the first word alone and the lexer is where reading that
\* word left it, position and column included.
C18_MultiWordOrBacktrack ==
    \A c \in WordCases :
        (lex.input = WordInput(c) /\ tokens # <<>>) =>
            IF ListedFor(c.first, c.second)
            THEN /\ tokens[1].type = "IDENTIFIER"
                 /\ tokens[1].pos = 0
                 /\ HasPrefix(tokens[1].literal, c.first \o <<" ">> \o c.second)
            ELSE /\ tokens[1] = Tok("IDENTIFIER", c.first, 0)
                 /\ Len(tokens) = 1 => lex = AfterFirstWord(lex.input)

(***************************************************************************)
(* Properties of ILLEGAL tokens.                                           *)
(***************************************************************************)
IllegalAt(toks) == {i \in DOMAIN toks : toks[i].type = "ILLEGAL"}

\* C19: the tokens of a line end with EOF and hold EOF nowhere else, every
\* "@" of the line is an ILLEGAL token at its position, and a parsed line
\* that holds an ILLEGAL token carries a parse error.
C19_IllegalTokenIsParseError ==
    /\ parser.tokens[Len(parser.tokens)].type = "EOF"
    /\ \A i \in 1..(Len(parser.tokens) - 1) : parser.tokens[i].type # "EOF"
    /\ \A k \in DOMAIN parser.input :
          parser.input[k] = "@" =>
              \E i \in IllegalAt(parser.tokens) :
                  parser.tokens[i].pos = k - 1 /\ parser.tokens[i].literal = <<"@">>
    /\ (parsed.done /\ IllegalAt(parser.tokens) # {}) => parser.errors # <<>>

References == {InTaxLower, InTaxUpper, InRateUpper}

\* The names bound in the session that differ from name in letter case only.
CaseVariants(name) ==
    {n \in DOMAIN sessionVariables : ToLowerStr(n) = ToLowerStr(name)}

\* C20: a reference to a name with no exact-case binding evaluates to the
\* value bound to the name that matches it case-insensitively.
C20_CaseInsensitiveLookup ==
    [][\A name \in References :
          (EvalOf(name) /\ name \notin DOMAIN sessionVariables /\ CaseVariants(name) # {})
          => \E n \in CaseVariants(name) : lastCall'.values[1] = sessionVariables[n]]_vars

(***************************************************************************)
(* Properties of the aggregation functions.                                *)
(***************************************************************************)
ArgValue(a) ==
    IF a = Arg10Usd THEN CurrencyValue(<<10, 1>>, "USD")
    ELSE IF a = In5Eur THEN CurrencyValue(<<5, 1>>, "EUR")
    ELSE IF a = Arg10Km THEN UnitValue(<<10, 1>>, "km")
    ELSE Number(<<5, 1>>)

SameType(v, w) ==
    /\ v.Kind = w.Kind
    /\ v.Curr = w.Curr /\ v.Unit = w.Unit /\ v.Metal = w.Metal /\ v.Crypto = w.Crypto

\* C21: sum, avg, min and max of two arguments return a value of the type of
\* the first argument, whatever the type of the second.
C21_AggregationKeepsFirstType ==
    \A fn \in FnNames, ab \in CallArgs :
        Returns({"Eval"}, {CallOf(fn, ab[1], ab[2])}) =>
            SameType(lastCall.values[1], ArgValue(ab[1]))


KindRank(kind) ==
    CASE kind = "Number" -> 1
      [] kind = "Percentage" -> 2
      [] kind = "WithUnit" -> 3
      [] kind = "Metal" -> 4
      [] kind = "Crypto" -> 5
      [] kind = "Currency" -> 6
      [] OTHER -> 0

HigherKind(v, w) == IF KindRank(v.Kind) >= KindRank(w.Kind) THEN v.Kind ELSE w.Kind

\* C22: a sum or difference of two operands of different kinds has the kind
\* that ranks higher in Number < Percentage < WithUnit < Metal < Crypto <
\* Currency, whichever side the operands are on.
C22_SumTakesHigherKind ==
    \A sign \in MixSigns, ab \in MixArgs :
        Returns({"Eval"}, {MixOf(ab[1], sign, ab[2])}) =>
            lastCall.values[1].Kind = HigherKind(ArgValue(ab[1]), ArgValue(ab[2]))


SignRank(sign) == IF sign \in {"+", "-"} THEN 1 ELSE IF sign \in {"*", "/"} THEN 2 ELSE 3

SignApply(sign, x, y) ==
    CASE sign = "+" -> RAdd(x, y)
      [] sign = "-" -> RSub(x, y)
      [] sign = "*" -> RMul(x, y)
      [] sign = "/" -> RDiv(x, y)
      [] sign = "^" -> RPow(x, y)

\* The value of "2 s1 3 s2 2" grouped by rank, power to the right and the
\* other operators to the left.
Grouped(s1, s2) ==
    IF SignRank(s1) > SignRank(s2) \/ (SignRank(s1) = SignRank(s2) /\ s1 # "^")
    THEN SignApply(s2, SignApply(s1, <<2, 1>>, <<3, 1>>), <<2, 1>>)
    ELSE SignApply(s1, <<2, 1>>, SignApply(s2, <<3, 1>>, <<2, 1>>))

\* The value of a line of UnaryInputs when the sign applies to the operand
\* next to it: (-2)^2, ((-2)^2), 2*(-3)+1, 2*(+3)+1 and 2^(-1)*2.
UnaryExpected(input) ==
    CASE input \in {InNegPow, InParenNegPow} -> <<4, 1>>
      [] input = InMulNegAdd -> <<-5, 1>>
      [] input = InMulPosAdd -> <<7, 1>>
      [] input = InPowNegMul -> <<1, 1>>

\* C23: a line "a s1 b s2 c" evaluates as grouped by the ranks add/sub <
\* mul/div < pow, power grouping to the right and the others to the left; a
\* unary sign applies to its operand before any binary operator.
C23_PrecedenceAndAssociativity ==
    /\ \A s1 \in PrecSigns, s2 \in PrecSigns :
           Returns({"Eval"}, {PrecOf(s1, s2)}) => lastCall.values[1] = Number(Grouped(s1, s2))
    /\ \A input \in UnaryInputs :
           Returns({"Eval"}, {input}) => lastCall.values[1] = Number(UnaryExpected(input))

C23_Witness ==
    /\ Returns({"Eval"}, {PrecOf("^", "^")})
    /\ lastCall.values[1] = Number(<<512, 1>>)


ClearActs == steps' = steps + 1 /\ lastCall'.op = "Clear"

\* C24: Clear leaves the session with no variable, an Empty previous result
\* and no line, and leaves every rate of the rate cache as it was.
C24_ClearEmptiesSessionKeepsRates ==
    [][ClearActs =>
          /\ DOMAIN sessionVariables' = {}
          /\ ctx'.previous = Empty
          /\ sessionLines' = <<>>
          /\ rates' = rates]_vars

C24_Witness ==
    /\ lastCall.op = "Clear"
    /\ steps = MaxSteps
    /\ sessionLines = <<>>
    /\ rates \notin {loadDefaults, EmptyMap}


\* C25: an Eval that returns an Error marks no line of the history consumed.
C25_ErrorLineConsumesNothing ==
    [][(steps' = steps + 1 /\ lastCall'.op = "Eval" /\ lastCall'.values[1].Kind = "Error") =>
          \A i \in DOMAIN sessionLines :
              sessionLines'[i].IsConsumed = sessionLines[i].IsConsumed]_vars


\* C26: an Eval of a blank line, of a comment line or of a line for which
\* the parser reports an error leaves the variables, the previous result and
\* the lines of the session, consumed flags included, as they were.
C26_SkippedLineChangesNothing ==
    [][(/\ steps' = steps + 1
        /\ lastCall'.op = "Eval"
        /\ \/ lastCall'.input \in BlankInputs \cup CommentInputs
           \/ ParseLine(lastCall'.input).errs # <<>>) =>
          sessionView' = sessionView]_vars

C26_Witness ==
    /\ Returns({"Eval"}, RejectedInputs)
    /\ ParseLine(lastCall.input).errs # <<>>
    /\ lastCall.values[1].Kind = "Error"
    /\ Len(sessionLines) = 2
    /\ DOMAIN sessionVariables # {}


MetalCodes == {"XAU"}

\* C28: after ApplyRawRates of a map that gives a metal code a USD price,
\* GetRate(metal, "USD") is that price.
C28_MetalPriceServedAsDelivered ==
    [][(nops' = nops + 1 /\ rawRates' \in RawInputs /\ ApplyRawRates(rawRates')) =>
          \A code \in DOMAIN rawRates' \cap MetalCodes :
              rawRates'[code] # Zero => Serves(rates', <<code, "USD">>, rawRates'[code])]_vars


(***************************************************************************)
(* Properties of concurrent calls on one Engine.                           *)
(***************************************************************************)
NoCallRunning == \A t \in Goroutines : ~Running(t)

MostRecentValue(lines) == IF LastValid(lines) = 0 THEN Empty ELSE lines[LastValid(lines)].Value

\* C27: once every call of Eval and Clear made by the goroutines has
\* returned, previous is the Value of the most recent non-empty, non-error
\* line of the history, and Empty when the history has none.
C27_PreviousIsMostRecentLine ==
    NoCallRunning => ctx.previous = MostRecentValue(sessionLines)


(***************************************************************************)
(* Properties of the keymap.                                               *)
(***************************************************************************)
OperatorKeys ==
    {[key |-> <<"d">>, operator |-> "operator_delete"],
     [key |-> <<"y">>, operator |-> "operator_yank"],
     [key |-> <<"c">>, operator |-> "operator_change"]}

\* C29: in normal mode an operator key leaves the keymap pending on that
\* operator, and a count key typed next leaves it so; "dd" returns the
\* delete-line command, and "d5j" a command of operator Delete with count 5
\* and motion MoveDown.
C29_OperatorPendingUntilCompleted ==
    /\ \A o \in OperatorKeys :
           typed \in {<<o.key>>, <<o.key, <<"5">>>>} => km.State.PendingOperator = o.operator
    /\ typed = <<<<"d">>, <<"d">>>> =>
           command.ok /\ "delete_line" \in {command.cmd.Action, command.cmd.Motion}
    /\ typed = <<<<"d">>, <<"5">>, <<"j">>>> =>
           /\ command.ok
           /\ command.cmd.Action = "operator_delete"
           /\ command.cmd.Motion = "move_down"
           /\ 5 \in {command.cmd.Count, command.cmd.MotionCount}


(***************************************************************************)
(* Properties of the HTTP client.                                          *)
(***************************************************************************)
\* Under FairClient every call of Do returns.
DoTerminates == <>(request.at = "returned")

\* C30: a call of Do makes at most maxRetries + 1 HTTP attempts, waits no
\* backoff longer than backoffMax, and has returned once it has a 2xx
\* response or the error of a cancelled context.
C30_DoIsBounded ==
    /\ request.sent <= client.maxRetries + 1
    /\ request.waited <= client.backoffMax
    /\ request.status = 200 \/ request.err = "Canceled" => request.at = "returned"

=============================================================================
